---- MODULE Spec2Model ----
(***************************************************************************)
(* Model of the Codicent VS Code extension (src/unnamed/part_000, the      *)
(* direct-HTTP + device-authorization version of extension.ts).            *)
(*                                                                         *)
(* The state is the set of running codicent.authenticate commands, each    *)
(* with the state of its completeDeviceAuth call (promise, interval timer, *)
(* attempt counter, poll requests in flight), the notifications shown, the *)
(* URLs opened, the workspace config file and clocks in whole seconds.     *)
(***************************************************************************)
EXTENDS Integers, Sequences, FiniteSets, TLC

(***************************************************************************)
(* Bounds of the exploration.                                              *)
(***************************************************************************)
MaxAge == 4
MaxExpires == 3
MaxInterval == 2

(***************************************************************************)
(* JavaScript values.  A string field is a string, Undef when the property *)
(* is absent; a numeric field is <<>> when absent and <<n>> when present.  *)
(***************************************************************************)
Undef == "<undefined>"
NoNum == << >>

Truthy(s) == s # Undef /\ s # ""
TruthyNum(n) == n # NoNum /\ n # <<0>>

\* a || b on string fields
OrStr(a, b) == IF Truthy(a) THEN a ELSE b
\* a || b on numeric fields
OrNum(a, b) == IF TruthyNum(a) THEN a ELSE b

DefaultExpiresIn == 600
DefaultInterval == 5

\* Math.floor(a / b) for integers a, b (b # 0)
FloorDiv(a, b) == IF b > 0 THEN a \div b ELSE (0 - a) \div (0 - b)

(***************************************************************************)
(* Exceptions.  The evaluation of a block either returns a value or throws;*)
(* try/catch turns a throw of its block into the value of its handler.     *)
(***************************************************************************)
Returned(v) == [threw |-> FALSE, value |-> v]
Thrown == [threw |-> TRUE, value |-> "<exception>"]
NotRun == [threw |-> FALSE, value |-> "<not run>"]

\* the block without its try/catch
TryCatch_NoCatch(outcome, fallback) == outcome

\* try { ... } catch (error) { ...; resolve(null) } and
\* try { ... } catch (error) { ...; return null }
TryCatch(outcome, fallback) ==
  IF outcome.threw THEN Returned(fallback) ELSE outcome

\* JSON.parse(data) throws a SyntaxError
JsonThrows(body) == body.kind = "garbage"
\* JSON.parse(data) is null, and reading a property of null throws a TypeError
NullReadThrows(body) == body.kind = "null"

(***************************************************************************)
(* Responses of the authorization-start endpoint.                          *)
(* kind: "error" (transport error) or "http"; body.kind: "garbage" (not    *)
(* JSON), "null" (the JSON value null) or "object" (any other JSON value;  *)
(* a property that a value does not have reads as undefined).              *)
(***************************************************************************)
StartBody(k, dcS, dcC, ucS, ucC, vuS, vuC, eS, eC, iv) ==
  [kind |-> k, device_code |-> dcS, deviceCode |-> dcC,
   user_code |-> ucS, userCode |-> ucC,
   verification_uri |-> vuS, verificationUri |-> vuC,
   expires_in |-> eS, expiresIn |-> eC, interval |-> iv]

NoBody == StartBody("garbage", Undef, Undef, Undef, Undef, Undef, Undef, NoNum, NoNum, NoNum)
NullBody == StartBody("null", Undef, Undef, Undef, Undef, Undef, Undef, NoNum, NoNum, NoNum)

ExpiresVals == {NoNum, <<0>>, <<0 - 2>>} \cup {<<n>> : n \in 1..MaxExpires}
IntervalVals == {NoNum, <<0>>, <<0 - 1>>} \cup {<<n>> : n \in 1..MaxInterval}

\* a verification URI whose scheme has illegal characters
BadUri == "bad scheme://codicent.com/device"

\* each required field is absent, empty, or given under one of the casings
FieldPairs(v) == {<<Undef, Undef>>, <<"", Undef>>, <<v, Undef>>, <<Undef, v>>}

StartObjects ==
  {StartBody("object", dc[1], dc[2], uc[1], uc[2], vu[1], vu[2], e, NoNum, i) :
     dc \in FieldPairs("dc"), uc \in FieldPairs("UC"),
     vu \in FieldPairs("https://codicent.com/device"),
     e \in ExpiresVals, i \in IntervalVals}
  \cup
  {StartBody("object", "dc", Undef, "UC", Undef, "https://codicent.com/device", Undef, NoNum, e, i) :
     e \in ExpiresVals, i \in IntervalVals}
  \cup
  {StartBody("object", "dc", Undef, "UC", Undef, BadUri, Undef, <<2>>, NoNum, <<1>>)}

StartReplies ==
  {[kind |-> "error", status |-> 0, body |-> NoBody]}
  \cup {[kind |-> "http", status |-> s, body |-> NoBody] : s \in {200, 400, 500}}
  \cup {[kind |-> "http", status |-> 200, body |-> NullBody]}
  \cup {[kind |-> "http", status |-> 200, body |-> b] : b \in StartObjects}
  \cup {[kind |-> "http", status |-> 201, body |-> b] :
          b \in {StartBody("object", Undef, "dc", Undef, "UC", Undef, "https://codicent.com/device", NoNum, <<3>>, <<1>>)}}
  \cup {[kind |-> "http", status |-> 500, body |-> b] :
          b \in {StartBody("object", "dc", Undef, "UC", Undef, "https://codicent.com/device", Undef, <<2>>, NoNum, <<1>>)}}

\* start bodies with each field absent, empty (or zero), or present, under
\* each of the casings independently and with different values
CasingPairs(snake, camel) ==
  {<<a, b>> : a \in {Undef, "", snake}, b \in {Undef, "", camel}}

CasingNumPairs ==
  {<<a, b>> : a \in {NoNum, <<0>>, <<2>>, <<0 - 2>>}, b \in {NoNum, <<0>>, <<3>>}}

CasingStartObjects ==
  {StartBody("object", dc[1], dc[2], uc[1], uc[2], vu[1], vu[2], e[1], e[2], i) :
     dc \in CasingPairs("dc", "dcCamel"), uc \in CasingPairs("UC", "UCCamel"),
     vu \in CasingPairs("https://codicent.com/device", "https://codicent.com/activate"),
     e \in CasingNumPairs, i \in {NoNum, <<1>>}}

\* the replies given to startDeviceAuth when it is called on its own
CallStartReplies ==
  StartReplies
  \cup {[kind |-> "http", status |-> 200, body |-> b] : b \in CasingStartObjects}
  \cup {[kind |-> "http", status |-> s, body |-> b] :
          s \in {204, 301, 404}, b \in {NoBody, NullBody}}

\* the DeviceAuthResponse value; isNull is the null result
NullAuth ==
  [isNull |-> TRUE, device_code |-> Undef, user_code |-> Undef,
   verification_uri |-> Undef, expires_in |-> 0, interval |-> 0]

\* the mapping with the camelCase property read first
MapDeviceAuth_CamelFirst(b) ==
  [isNull |-> FALSE,
   device_code |-> OrStr(b.deviceCode, b.device_code),
   user_code |-> OrStr(b.userCode, b.user_code),
   verification_uri |-> OrStr(b.verificationUri, b.verification_uri),
   expires_in |-> OrNum(OrNum(b.expiresIn, b.expires_in), <<DefaultExpiresIn>>)[1],
   interval |-> OrNum(b.interval, <<DefaultInterval>>)[1]]

\* the object literal of startDeviceAuth (field mapping with defaults)
MapDeviceAuth(b) ==
  [isNull |-> FALSE,
   device_code |-> OrStr(b.device_code, b.deviceCode),
   user_code |-> OrStr(b.user_code, b.userCode),
   verification_uri |-> OrStr(b.verification_uri, b.verificationUri),
   expires_in |-> OrNum(OrNum(b.expires_in, b.expiresIn), <<DefaultExpiresIn>>)[1],
   interval |-> OrNum(b.interval, <<DefaultInterval>>)[1]]

\* startDeviceAuth without the check of the status code
startDeviceAuth_AnyStatus(reply) ==
  IF reply.kind = "error" THEN NullAuth
  ELSE IF reply.body.kind = "object" THEN MapDeviceAuth(reply.body)
  ELSE NullAuth

\* what the promise of startDeviceAuth resolves with, for a given reply
startDeviceAuth(reply) ==
  IF reply.kind = "error" THEN NullAuth
  ELSE IF reply.status >= 200 /\ reply.status < 300
       THEN IF reply.body.kind = "object" THEN MapDeviceAuth(reply.body)
            ELSE NullAuth
       ELSE NullAuth

\* the try block of the response handler of startDeviceAuth
StartTryBody(reply) ==
  IF JsonThrows(reply.body) \/ NullReadThrows(reply.body) THEN Thrown
  ELSE Returned(MapDeviceAuth(reply.body))

\* how the promise of startDeviceAuth settles: Returned(v) is resolve(v), and
\* Thrown is an exception that leaves the "end" listener with the promise
\* unsettled
startDeviceAuthSettles(reply) ==
  IF reply.kind = "error" THEN Returned(NullAuth)
  ELSE IF reply.status >= 200 /\ reply.status < 300
       THEN TryCatch(StartTryBody(reply), NullAuth)
       ELSE Returned(NullAuth)

(***************************************************************************)
(* Responses of the token endpoint.                                        *)
(* A title is a sequence of words; LowerWord is toLowerCase on one word.   *)
(***************************************************************************)
LowerWord(w) ==
  CASE w = "Authorization" -> "authorization"
    [] w = "Pending" -> "pending"
    [] w = "PENDING" -> "pending"
    [] w = "Bad" -> "bad"
    [] w = "Request" -> "request"
    [] OTHER -> w

toLowerCase(t) == [i \in DOMAIN t |-> LowerWord(t[i])]
includes(t, w) == \E i \in DOMAIN t : t[i] = w

NoTitle == << >>
\* a title that is not a string (a number, an object): it has no toLowerCase
NonStringTitle == <<"<not a string>">>

\* errors: the set of field names that carry validation messages, hasErrors
\* tells whether the errors property is present at all
PollBody(k, at, ats, rt, hasErr, errs, err, title) ==
  [kind |-> k, accessToken |-> at, access_token |-> ats, refreshToken |-> rt,
   refresh_token |-> Undef,
   hasErrors |-> hasErr, errors |-> errs, error |-> err, title |-> title]

NoPollBody == PollBody("garbage", Undef, Undef, Undef, FALSE, {}, Undef, NoTitle)
NullPollBody == PollBody("null", Undef, Undef, Undef, FALSE, {}, Undef, NoTitle)

TokenJwt == "hdr.payloadDemo.sig"
TokenOpaque == "opaque-token"
JsonNull == "<null>"

TokenBodies ==
  {PollBody("object", at, Undef, rt, FALSE, {}, Undef, NoTitle) :
     at \in {TokenJwt, TokenOpaque}, rt \in {Undef, JsonNull, "refresh-1"}}
  \cup {PollBody("object", Undef, Undef, "refresh-1", FALSE, {}, Undef, NoTitle),
        PollBody("object", "", Undef, Undef, FALSE, {}, Undef, NoTitle),
        PollBody("object", Undef, TokenJwt, Undef, FALSE, {}, Undef, NoTitle)}

ErrorBodies ==
  {PollBody("object", Undef, Undef, Undef, TRUE, {f}, Undef, <<"Bad", "Request">>) :
     f \in {"ClientId", "DeviceCode", "GrantType", "Scope"}}
  \cup {PollBody("object", Undef, Undef, Undef, TRUE, {"ClientId"}, "authorization_pending", NoTitle)}
  \cup {PollBody("object", Undef, Undef, Undef, FALSE, {}, e, NoTitle) :
     e \in {"authorization_pending", "slow_down", "invalid_grant", "access_denied", Undef}}
  \cup {PollBody("object", Undef, Undef, Undef, FALSE, {}, Undef, t) :
     t \in {<<"Authorization", "Pending">>, <<"Bad", "Request">>}}

\* token bodies with each of the two token fields absent, or present under
\* one or both of the casings
CasingBodies ==
  {[PollBody("object", at, ats, rt, FALSE, {}, Undef, NoTitle) EXCEPT !.refresh_token = rts] :
     at \in {Undef, TokenJwt}, ats \in {Undef, TokenOpaque},
     rt \in {Undef, "refresh-1"}, rts \in {Undef, "refresh-2"}}

\* error bodies whose title is not a string
TitleBodies ==
  {PollBody("object", Undef, Undef, Undef, FALSE, {}, e, NonStringTitle) :
     e \in {"authorization_pending", "invalid_grant", Undef}}
  \cup {PollBody("object", Undef, Undef, Undef, TRUE, {"GrantType"}, Undef, NonStringTitle)}

PollStatuses == {200, 201, 204, 400, 401, 404, 500}

PollReplies ==
  {[kind |-> "error", status |-> 0, body |-> NoPollBody]}
  \cup {[kind |-> "http", status |-> s, body |-> b] :
          s \in PollStatuses,
          b \in {NoPollBody, NullPollBody} \cup TokenBodies \cup CasingBodies
                \cup ErrorBodies \cup TitleBodies}

\* the replies the token endpoint gives in the flow: every branch of the
\* response handler is taken by at least one of them
FlowPollReplies ==
  {[kind |-> "error", status |-> 0, body |-> NoPollBody],
   [kind |-> "http", status |-> 500, body |-> NoPollBody],
   [kind |-> "http", status |-> 200, body |-> NoPollBody],
   [kind |-> "http", status |-> 400, body |-> NoPollBody],
   [kind |-> "http", status |-> 200,
    body |-> PollBody("object", TokenJwt, Undef, "refresh-1", FALSE, {}, Undef, NoTitle)],
   [kind |-> "http", status |-> 200,
    body |-> PollBody("object", TokenOpaque, Undef, JsonNull, FALSE, {}, Undef, NoTitle)],
   [kind |-> "http", status |-> 200,
    body |-> PollBody("object", Undef, Undef, "refresh-1", FALSE, {}, Undef, NoTitle)],
   [kind |-> "http", status |-> 400,
    body |-> PollBody("object", Undef, Undef, Undef, TRUE, {"ClientId"}, Undef, <<"Bad", "Request">>)],
   [kind |-> "http", status |-> 400,
    body |-> PollBody("object", Undef, Undef, Undef, FALSE, {}, "authorization_pending", NoTitle)],
   [kind |-> "http", status |-> 400,
    body |-> PollBody("object", Undef, Undef, Undef, FALSE, {}, "slow_down", NoTitle)],
   [kind |-> "http", status |-> 400,
    body |-> PollBody("object", Undef, Undef, Undef, FALSE, {}, Undef, <<"Authorization", "Pending">>)],
   [kind |-> "http", status |-> 400,
    body |-> PollBody("object", Undef, Undef, Undef, FALSE, {}, "invalid_grant", NoTitle)],
   [kind |-> "http", status |-> 400,
    body |-> PollBody("object", Undef, Undef, Undef, FALSE, {}, "access_denied", NoTitle)],
   [kind |-> "http", status |-> 400,
    body |-> PollBody("object", Undef, Undef, Undef, TRUE, {"DeviceCode"}, "authorization_pending", NoTitle)]}

\* the TokenResponse value; isNull is the null result
NullToken == [isNull |-> TRUE, accessToken |-> Undef, refreshToken |-> Undef]

\* errorResponse.title.toLowerCase() throws a TypeError: the title is read
\* only when the error code is neither authorization_pending nor slow_down
TitleReadThrows(body) ==
  /\ body.error \notin {"authorization_pending", "slow_down"}
  /\ body.title = NonStringTitle

\* the branch of the response handler of pollForToken that a reply takes
PollBranch(reply) ==
  IF reply.kind = "error" THEN "transportError"
  ELSE IF reply.status >= 200 /\ reply.status < 300
  THEN IF reply.body.kind # "object" THEN "parseError"
       ELSE IF ~Truthy(reply.body.accessToken) THEN "missingAccessToken"
       ELSE "success"
  ELSE IF reply.status = 400
  THEN IF reply.body.kind # "object" THEN "parseError400"
       ELSE IF reply.body.hasErrors
               /\ reply.body.errors \cap {"ClientId", "DeviceCode", "GrantType"} # {}
            THEN "validationError"
       ELSE IF TitleReadThrows(reply.body) THEN "parseError400"
       ELSE IF reply.body.error = "authorization_pending"
               \/ reply.body.error = "slow_down"
               \/ (reply.body.title # NoTitle
                   /\ includes(toLowerCase(reply.body.title), "pending"))
            THEN "pending"
       ELSE IF reply.body.error = "invalid_grant" THEN "invalidGrant"
       ELSE "otherError"
  ELSE "otherStatus"

\* the parser reading the token fields under either casing
pollForToken_EitherCasing(reply) ==
  IF /\ reply.kind = "http" /\ reply.status >= 200 /\ reply.status < 300
     /\ reply.body.kind = "object"
     /\ Truthy(OrStr(reply.body.accessToken, reply.body.access_token))
  THEN [isNull |-> FALSE,
        accessToken |-> OrStr(reply.body.accessToken, reply.body.access_token),
        refreshToken |-> OrStr(reply.body.refreshToken, reply.body.refresh_token)]
  ELSE NullToken

\* what the promise of pollForToken resolves with, for a given reply
pollForToken(reply) ==
  IF PollBranch(reply) = "success"
  THEN [isNull |-> FALSE, accessToken |-> reply.body.accessToken,
        refreshToken |-> reply.body.refreshToken]
  ELSE NullToken

\* the try blocks of the response handler of pollForToken (2xx and 400)
PollTryBody(reply) ==
  IF JsonThrows(reply.body) \/ NullReadThrows(reply.body) THEN Thrown
  ELSE IF reply.status = 400
          /\ ~(reply.body.hasErrors
               /\ reply.body.errors \cap {"ClientId", "DeviceCode", "GrantType"} # {})
          /\ TitleReadThrows(reply.body) THEN Thrown
  ELSE Returned(pollForToken(reply))

\* how the promise of pollForToken settles: Returned(v) is resolve(v), and
\* Thrown is an exception that leaves the "end" listener with the promise
\* unsettled
pollForTokenSettles(reply) ==
  IF reply.kind = "error" THEN Returned(NullToken)
  ELSE IF (reply.status >= 200 /\ reply.status < 300) \/ reply.status = 400
       THEN TryCatch(PollTryBody(reply), NullToken)
       ELSE Returned(NullToken)

(***************************************************************************)
(* TokenInspector: decodeJWT and getProjectFromToken.  A token is the join *)
(* of its segments with dots; base64 decoding and JSON parsing are tables  *)
(* over the segments and texts of the model.                               *)
(***************************************************************************)
\* the middle segments: base64 of a JSON object, of another JSON value, of a
\* text that is not JSON, and segments that are not valid base64
MiddleSegs ==
  {"payloadDemo", "payloadAud", "payloadEmpty", "payloadAll", "payloadNumber",
   "payloadNull", "payloadZero", "payloadText", "payloadCut",
   "payload!Demo", "!!!!", "", "payloadProj", "payloadAudClient",
   "payloadClient", "payloadBlank", "payloadBadExp"}

TokenParts ==
  {<<h, m, g>> : h \in {"hdr", ""}, m \in MiddleSegs, g \in {"sig", ""}}
  \cup {<<"hdr", m>> : m \in MiddleSegs}
  \cup {<<m>> : m \in MiddleSegs \cup {"opaque-token", "my-placeholder-token"}}
  \cup {<<"hdr", m, "sig", "extra">> : m \in MiddleSegs}

RECURSIVE Join(_)
Join(parts) ==
  IF Len(parts) = 1 THEN parts[1] ELSE parts[1] \o "." \o Join(Tail(parts))

\* a token that is not a string (a number, an object): it has no split
NonStringToken == "<not a string token>"

Tokens == {Join(parts) : parts \in TokenParts} \cup {NonStringToken}

\* token.split("."), the inverse of the join
SplitDot(token) == CHOOSE parts \in TokenParts : Join(parts) = token

\* token.split throws a TypeError
SplitThrows(token) == token = NonStringToken

\* payload + "=".repeat((4 - (payload.length % 4)) % 4)
Pad(payload) ==
  payload \o (CASE (4 - (Len(payload) % 4)) % 4 = 0 -> ""
               [] (4 - (Len(payload) % 4)) % 4 = 1 -> "="
               [] (4 - (Len(payload) % 4)) % 4 = 2 -> "=="
               [] OTHER -> "===")

\* Buffer.from(padded, "base64").toString("utf8").  The decoder never throws:
\* it skips the characters outside the base64 alphabet and decodes the rest,
\* so "payload!Demo" gives the bytes of "payloadDemo" and "!!!!" no bytes.
Base64ToUtf8(padded) ==
  CASE padded = "payloadDemo=" -> "{\"project\":\"demo\",\"exp\":1999999999}"
    [] padded = "payloadAud==" -> "{\"aud\":\"svc1\"}"
    [] padded = "payloadEmpty" -> "{}"
    [] padded = "payloadAll==" -> "{\"project\":\"p1\",\"proj\":\"p2\",\"aud\":\"p3\",\"client_id\":\"p4\"}"
    [] padded = "payloadNumber===" -> "42"
    [] padded = "payloadNull=" -> "null"
    [] padded = "payloadZero=" -> "0"
    [] padded = "payloadText=" -> "not json"
    [] padded = "payloadCut==" -> "{\"project\":\"de"
    [] padded = "payload!Demo" -> "{\"project\":\"demo\",\"exp\":1999999999}"
    [] padded = "payloadProj=" -> "{\"proj\":\"p2\",\"aud\":\"p3\",\"client_id\":\"p4\"}"
    [] padded = "payloadAudClient" -> "{\"aud\":\"p3\",\"client_id\":\"p4\"}"
    [] padded = "payloadClient===" -> "{\"client_id\":\"p4\"}"
    [] padded = "payloadBlank" -> "{\"project\":\"\",\"proj\":\"p2\"}"
    [] padded = "payloadBadExp===" -> "{\"project\":\"demo\",\"exp\":\"never\"}"
    [] OTHER -> ""

\* a JSON payload: kind "invalid" (JSON.parse throws), "null", "falsy" (0, "",
\* false), "scalar" (any other non-object) or "object" with its claims
Payload(k, project, proj, aud, client_id) ==
  [kind |-> k, project |-> project, proj |-> proj, aud |-> aud, client_id |-> client_id]

NullPayload == Payload("null", Undef, Undef, Undef, Undef)

\* JSON.parse(decodedPayload)
JsonParse(text) ==
  CASE text = "{\"project\":\"demo\",\"exp\":1999999999}" -> Payload("object", "demo", Undef, Undef, Undef)
    [] text = "{\"aud\":\"svc1\"}" -> Payload("object", Undef, Undef, "svc1", Undef)
    [] text = "{}" -> Payload("object", Undef, Undef, Undef, Undef)
    [] text = "{\"project\":\"p1\",\"proj\":\"p2\",\"aud\":\"p3\",\"client_id\":\"p4\"}" -> Payload("object", "p1", "p2", "p3", "p4")
    [] text = "{\"proj\":\"p2\",\"aud\":\"p3\",\"client_id\":\"p4\"}" -> Payload("object", Undef, "p2", "p3", "p4")
    [] text = "{\"aud\":\"p3\",\"client_id\":\"p4\"}" -> Payload("object", Undef, Undef, "p3", "p4")
    [] text = "{\"client_id\":\"p4\"}" -> Payload("object", Undef, Undef, Undef, "p4")
    [] text = "{\"project\":\"\",\"proj\":\"p2\"}" -> Payload("object", "", "p2", Undef, Undef)
    [] text = "{\"project\":\"demo\",\"exp\":\"never\"}" -> Payload("object", "demo", Undef, Undef, Undef)
    [] text = "42" -> Payload("scalar", Undef, Undef, Undef, Undef)
    [] text = "null" -> NullPayload
    [] text = "0" -> Payload("falsy", Undef, Undef, Undef, Undef)
    [] OTHER -> Payload("invalid", Undef, Undef, Undef, Undef)

\* JSON.parse(Buffer.from(padded segment, "base64").toString("utf8"))
ParseSegment(seg) == JsonParse(Base64ToUtf8(Pad(seg)))

\* the try block without the test of the number of parts
DecodeTryBody_NoLengthCheck(token) ==
  IF SplitThrows(token) THEN Thrown
  ELSE LET parts == SplitDot(token) IN
       IF Len(parts) < 2 THEN Thrown
       ELSE IF ParseSegment(parts[2]).kind = "invalid" THEN Thrown
       ELSE Returned(ParseSegment(parts[2]))

\* the try block of decodeJWT
DecodeTryBody(token) ==
  IF SplitThrows(token) THEN Thrown
  ELSE LET parts == SplitDot(token) IN
       IF Len(parts) # 3 THEN Returned(NullPayload)
       ELSE IF ParseSegment(parts[2]).kind = "invalid" THEN Thrown
       ELSE Returned(ParseSegment(parts[2]))

\* how a call of decodeJWT ends: Returned(v), or Thrown to the caller
decodeJWTReturns(token) == TryCatch(DecodeTryBody(token), NullPayload)

decodeJWT(token) == decodeJWTReturns(token).value

\* the chain of claims read in the order aud, project, proj, client_id
getProjectFromToken_AudFirst(token) ==
  LET payload == decodeJWT(token) IN
  IF payload.kind \in {"null", "falsy"} THEN Undef
  ELSE OrStr(payload.aud, OrStr(payload.project, OrStr(payload.proj, OrStr(payload.client_id, Undef))))

\* the project claim, or Undef for null
getProjectFromToken(token) ==
  LET payload == decodeJWT(token) IN
  IF payload.kind \in {"null", "falsy"} THEN Undef
  ELSE OrStr(payload.project, OrStr(payload.proj, OrStr(payload.aud, OrStr(payload.client_id, Undef))))

(***************************************************************************)
(* Notifications (vscode.window.show*Message) and opened URLs.             *)
(***************************************************************************)
MsgNoFolder == <<"warning", "No workspace folder is open. Open a folder to authenticate with Codicent.">>
MsgStarting == <<"info", "Starting Codicent device authorization...">>
MsgStartFailed == <<"error", "Failed to start device authorization">>
MsgInvalidResponse == <<"error", "Invalid device authorization response. Check console for details.">>
MsgPrompt(userCode) == <<"info", "Codicent Authorization Required", userCode>>
MsgExpired == <<"error", "Device authorization expired. Please try again.">>
MsgAuthorized == <<"info", "Successfully authorized with Codicent!">>
MsgException == <<"error", "Device authorization failed: ">>
MsgNoProject == <<"warning", "Could not extract project name from token. Using default 'unknown-project'">>
MsgConfigured(project) == <<"info", "Codicent workspace configured for project: ", project>>
MsgAuthenticated(project) == <<"info", "Successfully authenticated with Codicent! Project: ", project>>
MsgAuthFailed == <<"error", "Codicent authentication failed">>

\* verification_uri + "?user_code=" + user_code
VerificationUrl(auth) == <<auth.verification_uri, "?user_code=", auth.user_code>>

\* vscode.Uri.parse throws on a scheme with illegal characters
UriParseThrows(url) == url[1] = BadUri

(***************************************************************************)
(* State.                                                                  *)
(*   flow[f]    one invocation of the codicent.authenticate command        *)
(*   config     the content of .vscode/codicent.json                       *)
(*   hasFolder  vscode.workspace.workspaceFolders is defined               *)
(*   call       one call of a function of the extension on its own: the    *)
(*              function, its input, and how the call ended                *)
(* Time is kept by two clocks per flow, in seconds: age, the time since    *)
(* the start response was received, and elapsed, the time since the        *)
(* interval timer was armed or last fired.  A clock stops at its cap, from *)
(* where on its exact value is no longer compared with anything.           *)
(***************************************************************************)
VARIABLES flow, config, hasFolder, call

vars == <<flow, config, hasFolder, call>>

\* no function is being called on its own
NoCall == [fn |-> "none", arg |-> "none", done |-> FALSE, out |-> NotRun]

NoConfig == [exists |-> FALSE, project |-> Undef, accessToken |-> Undef, refreshToken |-> Undef]

(***************************************************************************)
(* The file .vscode/codicent.json.  It is absent, or holds a text: the     *)
(* text of a JSON object is the sequence of its members in the order       *)
(* written, each a key and the JSON text of its value.                     *)
(***************************************************************************)
NoFile == [exists |-> FALSE, kind |-> "none", members |-> << >>]

\* the strings that a config of the model can hold
ConfigStrings ==
  Tokens \cup {"refresh-1", "refresh-2", "demo", "svc1", "p1", "p2", "p3", "p4",
               "unknown-project", "", "your_actual_api_key_here", "placeholder",
               "my-placeholder-token"}

\* the JSON text of a string (no character of ConfigStrings needs an escape)
JsonString(v) == "\"" \o v \o "\""

\* the JSON text of a value
JsonValue(v) == IF v = JsonNull THEN "null" ELSE JsonString(v)

\* JSON.parse of the text of a value
JsonParseValue(text) ==
  IF text = "null" THEN JsonNull
  ELSE CHOOSE v \in ConfigStrings : JsonString(v) = text

\* JSON.stringify leaves out a property whose value is undefined
Member(key, v) == IF v = Undef THEN << >> ELSE << <<key, JsonValue(v)>> >>

\* the text written without the accessToken property
JsonStringify_NoAccessToken(c) ==
  Member("project", c.project) \o Member("refreshToken", c.refreshToken)

\* JSON.stringify(config, null, 2)
JsonStringify(c) ==
  Member("project", c.project) \o Member("accessToken", c.accessToken)
    \o Member("refreshToken", c.refreshToken)

\* the file after vscode.workspace.fs.writeFile(outputPath, encode(json))
FileOf(c) == [exists |-> TRUE, kind |-> "json", members |-> JsonStringify(c)]

\* config.<key> of the parsed object: undefined for a missing key
Field(members, key) ==
  IF \E i \in DOMAIN members : members[i][1] = key
  THEN JsonParseValue(members[CHOOSE i \in DOMAIN members : members[i][1] = key][2])
  ELSE Undef

\* getWorkspaceConfig: null (NoConfig) when the file cannot be read, is
\* empty or is not JSON, otherwise the parsed object
getWorkspaceConfig(file) ==
  IF ~file.exists \/ file.kind # "json" THEN NoConfig
  ELSE [exists |-> TRUE,
        project |-> Field(file.members, "project"),
        accessToken |-> Field(file.members, "accessToken"),
        refreshToken |-> Field(file.members, "refreshToken")]

\* the promise returned by completeDeviceAuth: unsettled, null or a token
Unset == [state |-> "unset", accessToken |-> Undef, refreshToken |-> Undef]
NullResult == [state |-> "null", accessToken |-> Undef, refreshToken |-> Undef]

\* tokenResponse.refreshToken ?? undefined
NullishToUndef(v) == IF v = JsonNull THEN Undef ELSE v

TokenResult(tokenResponse) ==
  [state |-> "token", accessToken |-> tokenResponse.accessToken,
   refreshToken |-> NullishToUndef(tokenResponse.refreshToken)]

Min(a, b) == IF a < b THEN a ELSE b
Max(a, b) == IF a > b THEN a ELSE b

\* the interval timer is followed for at most MaxFires callbacks
MaxFires == MaxExpires + 1
\* the cap of the timer clock: no period of the model is longer
MaxElapsed == Max(DefaultInterval, MaxInterval)

InitFlow ==
  [pc |-> "idle", deviceAuth |-> NullAuth,
   attempts |-> 0, maxAttempts |-> 0,
   timerActive |-> FALSE, elapsed |-> 0, inflight |-> 0,
   result |-> Unset, newConfig |-> NoConfig,
   shown |-> << >>, opened |-> << >>,
   \* history of the flow, read by the properties only
   age |-> 0, startsSent |-> 0, pollsSent |-> 0, replies |-> 0,
   userChoice |-> "none", lastBranch |-> "none", allPending |-> TRUE,
   polledWith |-> Undef]

Init ==
  /\ flow = [f \in {"f1"} |-> InitFlow]
  /\ config = NoFile
  /\ hasFolder \in BOOLEAN
  /\ call = NoCall

(***************************************************************************)
(* Helpers of completeDeviceAuth.                                          *)
(***************************************************************************)
\* the validation without the check of device_code
MissingRequiredFields_NoDeviceCode(auth) ==
  ~Truthy(auth.user_code) \/ ~Truthy(auth.verification_uri)

\* !deviceAuth.user_code || !deviceAuth.device_code || !deviceAuth.verification_uri
MissingRequiredFields(auth) ==
  ~Truthy(auth.user_code) \/ ~Truthy(auth.device_code) \/ ~Truthy(auth.verification_uri)

\* a dismissed prompt taken for an accepted one
Accepted_UnlessCancel(userChoice) == userChoice # "Cancel"

\* userChoice !== "Open Browser" is the cancel path
Accepted(userChoice) == userChoice = "Open Browser"

\* Math.floor(deviceAuth.expires_in / deviceAuth.interval)
MaxAttempts(auth) == FloorDiv(auth.expires_in, auth.interval)

\* the interval passed to setInterval without the conversion to milliseconds:
\* a period of a few milliseconds, which is 0 on a clock of whole seconds
TimerPeriod_Milliseconds(auth) == 0

\* setInterval(..., deviceAuth.interval * 1000): a delay below 1 ms or above
\* 2^31-1 ms is replaced by 1 ms, which is 0 on a clock of whole seconds
TimerPeriod(auth) ==
  IF auth.interval * 1000 < 1 \/ auth.interval * 1000 > 2147483647 THEN 0
  ELSE auth.interval

\* the expiry test off by one, late and early
AttemptsExhausted_Late(attempts, maxAttempts) == attempts > maxAttempts + 1
AttemptsExhausted_Early(attempts, maxAttempts) == attempts >= maxAttempts

\* attempts > maxAttempts
AttemptsExhausted(attempts, maxAttempts) == attempts > maxAttempts

\* the continuation writing a config also for a null result
AfterCompleteDeviceAuth_WriteOnNull(fl) ==
  LET projectFromToken == IF fl.result.state = "token"
                          THEN getProjectFromToken(fl.result.accessToken) ELSE Undef
      updatedConfig == [exists |-> TRUE,
                        project |-> OrStr(projectFromToken, "unknown-project"),
                        accessToken |-> fl.result.accessToken,
                        refreshToken |-> fl.result.refreshToken]
  IN [fl EXCEPT !.pc = "writing",
                !.newConfig = updatedConfig,
                !.shown = IF Truthy(projectFromToken) THEN @ ELSE Append(@, MsgNoProject)]

\* the continuation storing the project of the token without the default
AfterCompleteDeviceAuth_NoDefault(fl) ==
  IF fl.result.state = "token"
  THEN LET projectFromToken == getProjectFromToken(fl.result.accessToken)
           updatedConfig == [exists |-> TRUE,
                             project |-> projectFromToken,
                             accessToken |-> fl.result.accessToken,
                             refreshToken |-> fl.result.refreshToken]
       IN [fl EXCEPT !.pc = "writing",
                     !.newConfig = updatedConfig,
                     !.shown = IF Truthy(projectFromToken) THEN @ ELSE Append(@, MsgNoProject)]
  ELSE [fl EXCEPT !.pc = "done", !.shown = Append(@, MsgAuthFailed)]

\* The continuation of the codicent.authenticate command after
\* "await completeDeviceAuth()", up to its next await: fl is the flow record
\* with the result already set.
AfterCompleteDeviceAuth(fl) ==
  IF fl.result.state = "token"
  THEN LET projectFromToken == getProjectFromToken(fl.result.accessToken)
           updatedConfig == [exists |-> TRUE,
                             project |-> OrStr(projectFromToken, "unknown-project"),
                             accessToken |-> fl.result.accessToken,
                             refreshToken |-> fl.result.refreshToken]
       IN [fl EXCEPT !.pc = "writing",
                     !.newConfig = updatedConfig,
                     !.shown = IF Truthy(projectFromToken) THEN @ ELSE Append(@, MsgNoProject)]
  ELSE [fl EXCEPT !.pc = "done", !.shown = Append(@, MsgAuthFailed)]

\* completeDeviceAuth returns null (the promise of the async function settles)
ReturnNull(fl) == AfterCompleteDeviceAuth([fl EXCEPT !.result = NullResult])

(***************************************************************************)
(* Actions.                                                                *)
(***************************************************************************)
\* codicent.authenticate is invoked
Authenticate(f) ==
  /\ flow[f].pc = "idle"
  /\ IF ~hasFolder
     THEN flow' = [flow EXCEPT ![f] = [@ EXCEPT !.pc = "folderPrompt",
                                                !.shown = Append(@, MsgNoFolder)]]
     ELSE flow' = [flow EXCEPT ![f] = [@ EXCEPT !.pc = "starting",
                                                !.shown = Append(@, MsgStarting),
                                                !.startsSent = @ + 1]]
  /\ UNCHANGED <<config, hasFolder, call>>

\* the user answers the "no workspace folder" warning
FolderPromptAnswer(f, action) ==
  /\ flow[f].pc = "folderPrompt"
  /\ flow' = [flow EXCEPT ![f] = [@ EXCEPT !.pc = "done",
                                           !.opened = IF action = "Open Folder"
                                                      THEN Append(@, <<"vscode.openFolder">>)
                                                      ELSE @]]
  /\ UNCHANGED <<config, hasFolder, call>>

\* the start request completes: completeDeviceAuth step 1 and the prompt of step 2
StartReply(f, reply) ==
  /\ flow[f].pc = "starting"
  /\ LET deviceAuth == startDeviceAuth(reply)
         fl == [flow[f] EXCEPT !.deviceAuth = deviceAuth]
     IN flow' = [flow EXCEPT ![f] =
          IF deviceAuth.isNull
          THEN ReturnNull([fl EXCEPT !.shown = Append(@, MsgStartFailed)])
          ELSE IF MissingRequiredFields(deviceAuth)
          THEN ReturnNull([fl EXCEPT !.shown = Append(@, MsgInvalidResponse)])
          ELSE [fl EXCEPT !.pc = "prompt",
                          !.shown = Append(@, MsgPrompt(deviceAuth.user_code))]]
  /\ UNCHANGED <<config, hasFolder, call>>

\* the user answers the prompt: the rest of step 2 and the set-up of step 3
PromptAnswer(f, userChoice) ==
  /\ flow[f].pc = "prompt"
  /\ LET fl == [flow[f] EXCEPT !.userChoice = userChoice]
         auth == fl.deviceAuth
     IN flow' = [flow EXCEPT ![f] =
          IF ~Accepted(userChoice)
          THEN ReturnNull(fl)
          ELSE IF UriParseThrows(VerificationUrl(auth))
          THEN ReturnNull([fl EXCEPT !.shown = Append(@, MsgException)])
          ELSE [fl EXCEPT !.pc = "polling",
                          !.opened = Append(@, VerificationUrl(auth)),
                          !.maxAttempts = MaxAttempts(auth),
                          !.attempts = 0,
                          !.timerActive = TRUE,
                          !.elapsed = 0]]
  /\ UNCHANGED <<config, hasFolder, call>>

\* the callback returning at once while a poll request is in flight
TimerFire_SkipWhileInFlight(f) ==
  /\ flow[f].timerActive
  /\ flow[f].elapsed >= TimerPeriod(flow[f].deviceAuth)
  /\ flow[f].attempts < MaxFires
  /\ LET fl == [flow[f] EXCEPT !.attempts = @ + 1, !.elapsed = 0]
     IN flow' = [flow EXCEPT ![f] =
          IF flow[f].inflight > 0
          THEN [flow[f] EXCEPT !.elapsed = 0]
          ELSE IF AttemptsExhausted(fl.attempts, fl.maxAttempts)
          THEN LET cleared == [fl EXCEPT !.timerActive = FALSE,
                                         !.shown = Append(@, MsgExpired)]
               IN IF fl.result.state = "unset" THEN ReturnNull(cleared) ELSE cleared
          ELSE [fl EXCEPT !.inflight = @ + 1,
                          !.pollsSent = @ + 1,
                          !.polledWith = fl.deviceAuth.device_code]]
  /\ UNCHANGED <<config, hasFolder, call>>

\* the interval timer fires: the callback up to "await pollForToken(...)"
TimerFire(f) ==
  /\ flow[f].timerActive
  /\ flow[f].elapsed >= TimerPeriod(flow[f].deviceAuth)
  /\ flow[f].attempts < MaxFires
  /\ LET fl == [flow[f] EXCEPT !.attempts = @ + 1, !.elapsed = 0]
     IN flow' = [flow EXCEPT ![f] =
          IF AttemptsExhausted(fl.attempts, fl.maxAttempts)
          THEN LET cleared == [fl EXCEPT !.timerActive = FALSE,
                                         !.shown = Append(@, MsgExpired)]
               IN IF fl.result.state = "unset" THEN ReturnNull(cleared) ELSE cleared
          ELSE [fl EXCEPT !.inflight = @ + 1,
                          !.pollsSent = @ + 1,
                          !.polledWith = fl.deviceAuth.device_code]]
  /\ UNCHANGED <<config, hasFolder, call>>

\* the callback reporting every null of pollForToken to the user
PollReply_NotifyNull(f, reply) ==
  /\ flow[f].inflight > 0
  /\ LET tokenResponse == pollForToken(reply)
         fl == [flow[f] EXCEPT !.inflight = @ - 1,
                               !.replies = @ + 1,
                               !.lastBranch = PollBranch(reply),
                               !.allPending = @ /\ PollBranch(reply) = "pending"]
     IN flow' = [flow EXCEPT ![f] =
          IF ~tokenResponse.isNull
          THEN LET cleared == [fl EXCEPT !.timerActive = FALSE,
                                         !.shown = Append(@, MsgAuthorized)]
               IN IF fl.result.state = "unset"
                  THEN AfterCompleteDeviceAuth([cleared EXCEPT !.result = TokenResult(tokenResponse)])
                  ELSE cleared
          ELSE [fl EXCEPT !.shown = Append(@, <<"error", "Authorization not completed yet">>)]]
  /\ UNCHANGED <<config, hasFolder, call>>

\* the callback leaving the interval timer running on success
PollReply_KeepTimer(f, reply) ==
  /\ flow[f].inflight > 0
  /\ LET tokenResponse == pollForToken(reply)
         fl == [flow[f] EXCEPT !.inflight = @ - 1,
                               !.replies = @ + 1,
                               !.lastBranch = PollBranch(reply),
                               !.allPending = @ /\ PollBranch(reply) = "pending"]
     IN flow' = [flow EXCEPT ![f] =
          IF ~tokenResponse.isNull
          THEN LET kept == [fl EXCEPT !.shown = Append(@, MsgAuthorized)]
               IN IF fl.result.state = "unset"
                  THEN AfterCompleteDeviceAuth([kept EXCEPT !.result = TokenResult(tokenResponse)])
                  ELSE kept
          ELSE fl]
  /\ UNCHANGED <<config, hasFolder, call>>

\* a poll request completes: pollForToken resolves and the callback resumes
PollReply(f, reply) ==
  /\ flow[f].inflight > 0
  /\ LET tokenResponse == pollForToken(reply)
         fl == [flow[f] EXCEPT !.inflight = @ - 1,
                               !.replies = @ + 1,
                               !.lastBranch = PollBranch(reply),
                               !.allPending = @ /\ PollBranch(reply) = "pending"]
     IN flow' = [flow EXCEPT ![f] =
          IF ~tokenResponse.isNull
          THEN LET cleared == [fl EXCEPT !.timerActive = FALSE,
                                         !.shown = Append(@, MsgAuthorized)]
               IN IF fl.result.state = "unset"
                  THEN AfterCompleteDeviceAuth([cleared EXCEPT !.result = TokenResult(tokenResponse)])
                  ELSE cleared
          ELSE fl]
  /\ UNCHANGED <<config, hasFolder, call>>

\* writeConfigFile keeping the refreshToken of the file already there
WriteConfigFile_KeepRefreshToken(f) ==
  /\ flow[f].pc = "writing"
  /\ config' = FileOf([flow[f].newConfig EXCEPT
                         !.refreshToken = IF config.exists
                                          THEN getWorkspaceConfig(config).refreshToken
                                          ELSE @])
  /\ flow' = [flow EXCEPT ![f] = [@ EXCEPT !.pc = "done",
                 !.shown = Append(Append(@, MsgConfigured(flow[f].newConfig.project)),
                                  MsgAuthenticated(flow[f].newConfig.project))]]
  /\ UNCHANGED <<hasFolder, call>>

\* writeConfigFile completes and the command shows its final message
WriteConfigFile(f) ==
  /\ flow[f].pc = "writing"
  /\ config' = FileOf(flow[f].newConfig)
  /\ flow' = [flow EXCEPT ![f] = [@ EXCEPT !.pc = "done",
                 !.shown = Append(Append(@, MsgConfigured(flow[f].newConfig.project)),
                                  MsgAuthenticated(flow[f].newConfig.project))]]
  /\ UNCHANGED <<hasFolder, call>>

\* one second passes
Tick ==
  /\ flow' = [f \in DOMAIN flow |->
               [flow[f] EXCEPT
                  !.age = IF flow[f].pc \in {"prompt", "polling"} THEN Min(@ + 1, MaxAge) ELSE @,
                  !.elapsed = IF flow[f].timerActive THEN Min(@ + 1, MaxElapsed) ELSE @]]
  /\ UNCHANGED <<config, hasFolder, call>>

Next ==
  \/ \E f \in DOMAIN flow : Authenticate(f)
  \/ \E f \in DOMAIN flow, action \in {"Open Folder", Undef} : FolderPromptAnswer(f, action)
  \/ \E f \in DOMAIN flow, reply \in StartReplies : StartReply(f, reply)
  \/ \E f \in DOMAIN flow, userChoice \in {"Open Browser", "Cancel", Undef} : PromptAnswer(f, userChoice)
  \/ \E f \in DOMAIN flow : TimerFire(f)
  \/ \E f \in DOMAIN flow, reply \in FlowPollReplies : PollReply(f, reply)
  \/ \E f \in DOMAIN flow : WriteConfigFile(f)
  \/ Tick

Spec == Init /\ [][Next]_vars

(***************************************************************************)
(* The send commands.  A text is a sequence of pieces: the characters of   *)
(* the selection one by one, the line feed, "@" and the project name.  A   *)
(* run of a command gives the sequence of its effects, in order:           *)
(*   <<"show", message>>      a notification                               *)
(*   <<"getCodicentToken">>   the stored token is read                     *)
(*   <<"post", text, token, authorization>>  the request to               *)
(*                            mcp.codicent.com is sent, with its apiKey    *)
(*                            argument and its Authorization header        *)
(*   <<"get", path>>          the GET request to mcp.codicent.com          *)
(*   <<"return", value>>      the value a provider callback returns        *)
(*   <<"open", url>>          the URL is opened in the browser             *)
(*   <<"panel", text>>        showCodicentResponse                         *)
(***************************************************************************)
MsgNoEditor == <<"error", "No editor is active => open one and select some text and try again!">>
MsgNoSelection == <<"error", "No text selected => select some text and try again!">>
MsgNoTokenFound == <<"info", "Codicent: No token found. Please run the 'Codicent: Authenticate' command.">>
MsgNoApiKey == <<"error", "Codicent: No API key found. Please authenticate first.">>
MsgMcpError == <<"error", "Codicent MCP error: ">>
MsgParseFailed == <<"error", "Failed to parse Codicent response: ">>
MsgPostFailed == <<"error", "Failed to post to Codicent: ">>
MsgDirectFailed == <<"info", "Direct post failed. Opening Codicent in browser...">>
MsgSent(preview) == <<"info", "Message sent to Codicent: ", preview>>

\* the selections of the model
Selections ==
  {<< >>, <<" ">>, <<" ", "\n">>, <<"a">>, <<"a", "#", "b">>, <<"a", "&", "b">>,
   <<"a", " ", "b">>, <<"%", "a">>, <<"@", "a">>, <<"#">>}

\* text.trim().length === 0, testing the length only
IsBlank_EmptyOnly(text) == text = << >>

\* text.trim().length === 0
IsBlank(text) == \A i \in DOMAIN text : text[i] \in {" ", "\n"}

\* encodeURIComponent on one piece: every character is escaped except
\* letters, digits and - _ . ! ~ * ' ( )
EncodeComponentPiece(c) ==
  CASE c = "#" -> "%23" [] c = "&" -> "%26" [] c = " " -> "%20"
    [] c = "\n" -> "%0A" [] c = "%" -> "%25" [] c = "@" -> "%40"
    [] OTHER -> c

\* encodeURI on one piece: as encodeURIComponent, but the reserved characters
\* ; / ? : @ & = + $ , # are left as they are
EncodeUriPiece(c) ==
  CASE c = " " -> "%20" [] c = "\n" -> "%0A" [] c = "%" -> "%25"
    [] OTHER -> c

encodeURIComponent(text) == [i \in DOMAIN text |-> EncodeComponentPiece(text[i])]
encodeURI(text) == [i \in DOMAIN text |-> EncodeUriPiece(text[i])]

\* `https://codicent.com/compose?text=${encoded}`
ComposeUrl(encoded) == <<"https://codicent.com/compose", "?", "text", "=">> \o encoded

\* the reading of a percent escape
PercentDecodePiece(c) ==
  CASE c = "%23" -> "#" [] c = "%26" -> "&" [] c = "%20" -> " "
    [] c = "%0A" -> "\n" [] c = "%25" -> "%" [] c = "%40" -> "@"
    [] OTHER -> c

\* The text parameter that the receiver of the URL reads: the query ends at
\* the first "#" (the fragment), the parameter at the first "&", and the
\* escapes of what is left are decoded.
TextParam(url) ==
  LET raw == SubSeq(url, 5, Len(url))
      stops == {i \in DOMAIN raw : raw[i] \in {"#", "&"}}
      end == IF stops = {} THEN Len(raw)
             ELSE (CHOOSE i \in stops : \A j \in stops : i <= j) - 1
  IN [i \in 1..end |-> PercentDecodePiece(raw[i])]

\* the number of characters of a text
RECURSIVE CharLen(_)
CharLen(text) == IF text = << >> THEN 0 ELSE Len(Head(text)) + CharLen(Tail(text))

\* content.length > 50 ? content.substring(0, 50) + "..." : content
Preview(content) ==
  IF CharLen(content) > 50 THEN <<"<the first 50 characters>", "...">> ELSE content

\* files that the authenticate command did not write
EmptyFile == [exists |-> TRUE, kind |-> "empty", members |-> << >>]
GarbageFile == [exists |-> TRUE, kind |-> "garbage", members |-> << >>]

\* the config that the authenticate command stores for an access token
StoredConfig(token) ==
  [exists |-> TRUE, project |-> OrStr(getProjectFromToken(token), "unknown-project"),
   accessToken |-> token, refreshToken |-> Undef]

SendFiles ==
  {NoFile, EmptyFile, GarbageFile,
   FileOf([NoConfig EXCEPT !.exists = TRUE, !.project = "demo", !.accessToken = "placeholder"]),
   FileOf([NoConfig EXCEPT !.exists = TRUE, !.project = "demo", !.accessToken = "my-placeholder-token"]),
   FileOf([NoConfig EXCEPT !.exists = TRUE, !.project = "demo", !.accessToken = "your_actual_api_key_here"]),
   FileOf([NoConfig EXCEPT !.exists = TRUE, !.project = "demo", !.accessToken = ""]),
   FileOf([NoConfig EXCEPT !.exists = TRUE, !.project = "demo"])}
  \cup {FileOf(StoredConfig(token)) :
          token \in {TokenJwt, TokenOpaque, "hdr.payloadAud.sig", "hdr.payloadBadExp.sig"}}

\* the placeholder test without accessToken.includes("placeholder")
IsPlaceholder_LiteralsOnly(token) ==
  token \in {"your_actual_api_key_here", "placeholder"}

\* the placeholder tokens: the two literals and accessToken.includes("placeholder")
IsPlaceholder(token) ==
  token \in {"your_actual_api_key_here", "placeholder", "my-placeholder-token"}

\* new Date(payload.exp * 1000).toISOString() throws a RangeError: the exp
\* claim is truthy and gives no valid date
ExpDateThrows(token) ==
  /\ ~SplitThrows(token) /\ Len(SplitDot(token)) = 3
  /\ Base64ToUtf8(Pad(SplitDot(token)[2])) = "{\"project\":\"demo\",\"exp\":\"never\"}"

\* getCodicentToken: Returned(token), Returned(Undef) for null, or Thrown
getCodicentToken(folder, file) ==
  LET stored == getWorkspaceConfig(file)
      token == IF folder /\ Truthy(stored.accessToken) /\ ~IsPlaceholder(stored.accessToken)
               THEN stored.accessToken ELSE Undef
  IN IF Truthy(token) /\ decodeJWT(token).kind \notin {"null", "falsy"} /\ ExpDateThrows(token)
     THEN Thrown
     ELSE Returned(token)

\* getProjectMention: Returned(the mention) or Thrown
getProjectMention(folder, file) ==
  LET token == getCodicentToken(folder, file) IN
  IF token.threw THEN Thrown
  ELSE IF ~Truthy(token.value) THEN Returned(<< >>)
  ELSE LET projectName == getProjectFromToken(token.value)
       IN Returned(IF Truthy(projectName) THEN <<"@", projectName, " ">> ELSE << >>)

\* the answers to the request to mcp.codicent.com: body is what the response
\* text parses to ("result", and "sse" for a result in a data: line, "error"
\* for an error object, "null", "garbage" for no JSON)
McpReplies ==
  {[kind |-> "error", status |-> 0, body |-> "garbage"]}
  \cup {[kind |-> "http", status |-> 200, body |-> b] :
          b \in {"result", "sse", "error", "null", "garbage"}}
  \cup {[kind |-> "http", status |-> 204, body |-> "garbage"],
        [kind |-> "http", status |-> 500, body |-> "error"],
        [kind |-> "http", status |-> 401, body |-> "garbage"]}

\* the header value `Bearer ${token}`
Bearer(token) == <<"Bearer ", token>>

\* ensureCodicentToken starting the device flow when no token is stored
ensureCodicentToken_StartsAuth(folder, file) ==
  LET token == getCodicentToken(folder, file) IN
  IF token.threw
  THEN [threw |-> TRUE, value |-> Undef, effects |-> <<<<"getCodicentToken">>>>]
  ELSE IF ~Truthy(token.value)
  THEN [threw |-> FALSE, value |-> Undef,
        effects |-> <<<<"getCodicentToken">>, <<"startDeviceAuth">>>>]
  ELSE [threw |-> FALSE, value |-> token.value, effects |-> <<<<"getCodicentToken">>>>]

\* ensureCodicentToken: the stored token, or null after the hint to run the
\* authenticate command; threw when getCodicentToken throws
ensureCodicentToken(folder, file) ==
  LET token == getCodicentToken(folder, file) IN
  IF token.threw
  THEN [threw |-> TRUE, value |-> Undef, effects |-> <<<<"getCodicentToken">>>>]
  ELSE IF ~Truthy(token.value)
  THEN [threw |-> FALSE, value |-> Undef,
        effects |-> <<<<"getCodicentToken">>, <<"show", MsgNoTokenFound>>>>]
  ELSE [threw |-> FALSE, value |-> token.value, effects |-> <<<<"getCodicentToken">>>>]

\* the response handler of postToCodicentDirectly: the value the promise
\* resolves with and the message shown
PostResponse(content, reply) ==
  IF reply.kind = "error" THEN [success |-> FALSE, msg |-> MsgPostFailed]
  ELSE IF reply.status >= 200 /\ reply.status < 300
  THEN IF reply.body \in {"garbage", "null"} THEN [success |-> FALSE, msg |-> MsgParseFailed]
       ELSE IF reply.body = "error" THEN [success |-> FALSE, msg |-> MsgMcpError]
       ELSE [success |-> TRUE, msg |-> MsgSent(Preview(content))]
  ELSE [success |-> FALSE, msg |-> MsgPostFailed]

\* postToCodicentDirectly(content): the returned boolean and the effects
postToCodicentDirectly(content, folder, file, reply) ==
  LET token == ensureCodicentToken(folder, file) IN
  IF token.threw
  THEN [success |-> FALSE, effects |-> token.effects \o <<<<"show", MsgPostFailed>>>>]
  ELSE IF ~Truthy(token.value)
  THEN [success |-> FALSE, effects |-> token.effects \o <<<<"show", MsgNoApiKey>>>>]
  ELSE [success |-> PostResponse(content, reply).success,
        effects |-> token.effects
                      \o <<<<"post", content, token.value, Bearer(token.value)>>,
                            <<"show", PostResponse(content, reply).msg>>>>]

\* a rejected command: the effects up to the exception
Rejected(effects) == [threw |-> TRUE, value |-> effects]

\* the codicent.send command; arg is the editor, the selected text, the
\* workspace folder, the config file and the answer of the MCP server
codicentSend(arg) ==
  IF ~arg.editor THEN Returned(<<<<"show", MsgNoEditor>>>>)
  ELSE IF IsBlank(arg.text) THEN Returned(<<<<"show", MsgNoSelection>>>>)
  ELSE LET projectMention == getProjectMention(arg.folder, arg.file) IN
       IF projectMention.threw THEN Rejected(<<<<"getCodicentToken">>>>)
       ELSE LET contextualText == projectMention.value \o <<"\n">> \o arg.text
                post == postToCodicentDirectly(contextualText, arg.folder, arg.file, arg.reply)
            IN Returned(<<<<"getCodicentToken">>>> \o post.effects
                        \o IF ~post.success
                           THEN <<<<"show", MsgDirectFailed>>,
                                  <<"open", ComposeUrl(encodeURIComponent(contextualText))>>>>
                           ELSE << >>)

\* the codicent.sendToMcp command
codicentSendToMcp(arg) ==
  IF ~arg.editor THEN Returned(<<<<"show", MsgNoEditor>>>>)
  ELSE IF IsBlank(arg.text) THEN Returned(<<<<"show", MsgNoSelection>>>>)
  ELSE LET projectMention == getProjectMention(arg.folder, arg.file) IN
       IF projectMention.threw THEN Rejected(<<<<"getCodicentToken">>>>)
       ELSE LET contextualText == <<"@">> \o projectMention.value \o <<"\n">> \o arg.text
                post == postToCodicentDirectly(contextualText, arg.folder, arg.file, arg.reply)
            IN Returned(<<<<"getCodicentToken">>>> \o post.effects
                        \o IF post.success THEN <<<<"panel", contextualText>>>> ELSE << >>)

\* the codicent.send command of src/extension.ts, which opens the compose
\* window at once
codicentSendExternal(arg) ==
  IF ~arg.editor THEN Returned(<<<<"show", MsgNoEditor>>>>)
  ELSE IF IsBlank(arg.text) THEN Returned(<<<<"show", MsgNoSelection>>>>)
  ELSE Returned(<<<<"open", ComposeUrl(encodeURI(arg.text))>>>>)

MsgMcpNoApiKey == <<"warning", "Codicent MCP: No API key present. Use 'Codicent: Authenticate' to sign in.">>
MsgDebugCompleted == <<"info", "Debug completed. Check the console (View -> Output -> select 'Codicent') for details.">>

\* the headers of a server definition: absent, or a set of <<name, value>>
\* with the value a sequence of pieces
NoHeaders == [present |-> FALSE, set |-> {}]

\* the server definitions handed to the provider: one that is no
\* McpHttpServerDefinition, and HTTP definitions without headers, with
\* another header and with an Authorization header of their own (label, uri
\* and version are copied as they are)
McpServers ==
  {[http |-> FALSE, headers |-> NoHeaders],
   [http |-> TRUE, headers |-> NoHeaders],
   [http |-> TRUE, headers |-> [present |-> TRUE, set |-> {<<"X-Client", <<"vscode">>>>}]],
   [http |-> TRUE, headers |-> [present |-> TRUE,
                                set |-> {<<"Authorization", <<"Bearer ", "stale">>>>}]]}

\* { ...(server.headers ?? {}), Authorization: `Bearer ${token}` }
WithAuthorization(headers, token) ==
  [present |-> TRUE,
   set |-> {h \in headers.set : h[1] # "Authorization"}
             \cup {<<"Authorization", Bearer(token)>>}]

\* resolveMcpServerDefinition of the provider; arg is the workspace folder,
\* the config file and the server definition
resolveMcpServerDefinition(arg) ==
  LET token == getCodicentToken(arg.folder, arg.file) IN
  IF token.threw THEN Rejected(<<<<"getCodicentToken">>>>)
  ELSE IF ~Truthy(token.value)
  THEN Returned(<<<<"getCodicentToken">>, <<"show", MsgMcpNoApiKey>>,
                  <<"return", arg.server>>>>)
  ELSE IF arg.server.http
  THEN Returned(<<<<"getCodicentToken">>,
                  <<"return", [http |-> TRUE,
                               headers |-> WithAuthorization(arg.server.headers,
                                                             token.value)]>>>>)
  ELSE Returned(<<<<"getCodicentToken">>, <<"return", arg.server>>>>)

\* the answers to GET mcp.codicent.com/status
StatusReplies ==
  {[kind |-> "error", status |-> 0], [kind |-> "timeout", status |-> 0],
   [kind |-> "http", status |-> 200], [kind |-> "http", status |-> 503]}

\* testMcpServerStatus: the request answered with a 2xx status
testMcpServerStatus(reply) ==
  reply.kind = "http" /\ reply.status >= 200 /\ reply.status < 300

\* the text codicent.debugMcp posts
DebugText == <<"Debug test message from VS Code extension">>

\* the codicent.debugMcp command; arg is the workspace folder, the config
\* file, the answer to the status request and the answer to the post
codicentDebugMcp(arg) ==
  LET token == getCodicentToken(arg.folder, arg.file) IN
  IF token.threw THEN Rejected(<<<<"getCodicentToken">>>>)
  ELSE LET serverAvailable == testMcpServerStatus(arg.status)
           post == IF Truthy(token.value) /\ serverAvailable
                   THEN postToCodicentDirectly(DebugText, arg.folder, arg.file,
                                               arg.reply).effects
                   ELSE << >>
       IN Returned(<<<<"getCodicentToken">>, <<"get", "/status">>>> \o post
                   \o <<<<"show", MsgDebugCompleted>>>>)

\* initializeWorkspace, called on activation: the project of the config
\* read, or null
initializeWorkspace(arg) ==
  LET existingConfig == getWorkspaceConfig(arg.file) IN
  IF ~arg.folder \/ ~existingConfig.exists
  THEN Returned(<<<<"return", Undef>>>>)
  ELSE Returned(<<<<"return", existingConfig.project>>>>)

\* the inputs of resolveMcpServerDefinition
ResolveArgs == [folder : BOOLEAN, file : SendFiles, server : McpServers]

\* the inputs of codicent.debugMcp
DebugArgs ==
  [folder : BOOLEAN, file : SendFiles, status : StatusReplies, reply : McpReplies]

\* the inputs of initializeWorkspace
InitializeArgs == [folder : BOOLEAN, file : SendFiles]

\* the inputs of a send command
SendArgs ==
  [editor : BOOLEAN, text : Selections, folder : BOOLEAN, file : SendFiles,
   reply : McpReplies]

\* the inputs of the command of src/extension.ts, which reads no config and
\* sends no request
SendExternalArgs ==
  [editor : BOOLEAN, text : Selections, folder : {FALSE}, file : {NoFile},
   reply : {[kind |-> "error", status |-> 0, body |-> "garbage"]}]

(***************************************************************************)
(* The functions of the extension called on their own: the initial state   *)
(* holds the function and its input, the action runs the call.             *)
(***************************************************************************)
NewCall(fn, arg) == [fn |-> fn, arg |-> arg, done |-> FALSE, out |-> NotRun]

InitCalls ==
  /\ flow = [f \in {"f1"} |-> InitFlow]
  /\ config = NoFile
  /\ hasFolder = FALSE
  /\ \/ call \in {NewCall("startDeviceAuth", reply) : reply \in CallStartReplies}
     \/ call \in {NewCall("pollForToken", reply) : reply \in PollReplies}
     \/ call \in {NewCall("decodeJWT", token) : token \in Tokens}
     \/ call \in {NewCall("getProjectFromToken", token) : token \in Tokens}
     \/ call \in {NewCall("codicent.send", arg) : arg \in SendArgs}
     \/ call \in {NewCall("codicent.sendToMcp", arg) : arg \in SendArgs}
     \/ call \in {NewCall("codicent.send (src/extension.ts)", arg) : arg \in SendExternalArgs}
     \/ call \in {NewCall("resolveMcpServerDefinition", arg) : arg \in ResolveArgs}
     \/ call \in {NewCall("codicent.debugMcp", arg) : arg \in DebugArgs}
     \/ call \in {NewCall("initializeWorkspace", arg) : arg \in InitializeArgs}

CallStartDeviceAuth ==
  /\ call.fn = "startDeviceAuth" /\ ~call.done
  /\ call' = [call EXCEPT !.done = TRUE, !.out = startDeviceAuthSettles(call.arg)]
  /\ UNCHANGED <<flow, config, hasFolder>>

CallPollForToken ==
  /\ call.fn = "pollForToken" /\ ~call.done
  /\ call' = [call EXCEPT !.done = TRUE, !.out = pollForTokenSettles(call.arg)]
  /\ UNCHANGED <<flow, config, hasFolder>>

CallDecodeJWT ==
  /\ call.fn = "decodeJWT" /\ ~call.done
  /\ call' = [call EXCEPT !.done = TRUE, !.out = decodeJWTReturns(call.arg)]
  /\ UNCHANGED <<flow, config, hasFolder>>

CallGetProjectFromToken ==
  /\ call.fn = "getProjectFromToken" /\ ~call.done
  /\ call' = [call EXCEPT !.done = TRUE, !.out = Returned(getProjectFromToken(call.arg))]
  /\ UNCHANGED <<flow, config, hasFolder>>

CallSend ==
  /\ call.fn = "codicent.send" /\ ~call.done
  /\ call' = [call EXCEPT !.done = TRUE, !.out = codicentSend(call.arg)]
  /\ UNCHANGED <<flow, config, hasFolder>>

CallSendToMcp ==
  /\ call.fn = "codicent.sendToMcp" /\ ~call.done
  /\ call' = [call EXCEPT !.done = TRUE, !.out = codicentSendToMcp(call.arg)]
  /\ UNCHANGED <<flow, config, hasFolder>>

CallSendExternal ==
  /\ call.fn = "codicent.send (src/extension.ts)" /\ ~call.done
  /\ call' = [call EXCEPT !.done = TRUE, !.out = codicentSendExternal(call.arg)]
  /\ UNCHANGED <<flow, config, hasFolder>>

CallResolveMcpServerDefinition ==
  /\ call.fn = "resolveMcpServerDefinition" /\ ~call.done
  /\ call' = [call EXCEPT !.done = TRUE, !.out = resolveMcpServerDefinition(call.arg)]
  /\ UNCHANGED <<flow, config, hasFolder>>

CallDebugMcp ==
  /\ call.fn = "codicent.debugMcp" /\ ~call.done
  /\ call' = [call EXCEPT !.done = TRUE, !.out = codicentDebugMcp(call.arg)]
  /\ UNCHANGED <<flow, config, hasFolder>>

CallInitializeWorkspace ==
  /\ call.fn = "initializeWorkspace" /\ ~call.done
  /\ call' = [call EXCEPT !.done = TRUE, !.out = initializeWorkspace(call.arg)]
  /\ UNCHANGED <<flow, config, hasFolder>>

NextCalls ==
  \/ CallStartDeviceAuth
  \/ CallPollForToken
  \/ CallDecodeJWT
  \/ CallGetProjectFromToken
  \/ CallSend
  \/ CallSendToMcp
  \/ CallSendExternal
  \/ CallResolveMcpServerDefinition
  \/ CallDebugMcp
  \/ CallInitializeWorkspace

SpecCalls == InitCalls /\ [][NextCalls]_vars

(***************************************************************************)
(* Two invocations of codicent.authenticate in the same window.  The       *)
(* start endpoint gives each request a device code of its own, and the     *)
(* token endpoint answers a poll request according to the device code the  *)
(* request carries.                                                        *)
(***************************************************************************)
Flows2 == {"f1", "f2"}

\* the device code that the start endpoint issues to the request of flow f
DeviceCodeOf(f) == IF f = "f1" THEN "dc-1" ELSE "dc-2"

\* the tokens that the token endpoint grants for a device code
GrantFor(device_code) ==
  IF device_code = "dc-1"
  THEN [accessToken |-> TokenJwt, refreshToken |-> "refresh-1"]
  ELSE [accessToken |-> "hdr.payloadAud.sig", refreshToken |-> "refresh-2"]

TwoStartReplies(f) ==
  {[kind |-> "http", status |-> 200,
    body |-> StartBody("object", DeviceCodeOf(f), Undef, "UC", Undef,
                       "https://codicent.com/device", Undef, <<2>>, NoNum, <<1>>)]}

TwoPollReplies(device_code) ==
  {[kind |-> "http", status |-> 400,
    body |-> PollBody("object", Undef, Undef, Undef, FALSE, {}, "authorization_pending", NoTitle)],
   [kind |-> "http", status |-> 200,
    body |-> PollBody("object", GrantFor(device_code).accessToken, Undef,
                      GrantFor(device_code).refreshToken, FALSE, {}, Undef, NoTitle)]}

InitTwo ==
  /\ flow = [f \in Flows2 |-> InitFlow]
  /\ config = NoFile
  /\ hasFolder = TRUE
  /\ call = NoCall

NextTwo ==
  \/ \E f \in DOMAIN flow : Authenticate(f)
  \/ \E f \in DOMAIN flow : \E reply \in TwoStartReplies(f) : StartReply(f, reply)
  \/ \E f \in DOMAIN flow, userChoice \in {"Open Browser", "Cancel"} : PromptAnswer(f, userChoice)
  \/ \E f \in DOMAIN flow : TimerFire(f)
  \/ \E f \in DOMAIN flow : \E reply \in TwoPollReplies(flow[f].polledWith) : PollReply(f, reply)
  \/ \E f \in DOMAIN flow : WriteConfigFile(f)
  \/ Tick

SpecTwo == InitTwo /\ [][NextTwo]_vars

(***************************************************************************)
(* The stored config over time: codicent.authenticate and                  *)
(* codicent.clearTokens in a workspace that may already hold a config.     *)
(* The variable call holds the invocation of codicent.clearTokens: its arg *)
(* is the config the command has read.                                     *)
(***************************************************************************)
MsgNoFolderOpen == <<"error", "No workspace folder is open.">>
MsgCleared == <<"info", "Cleared all tokens. Use 'Codicent: Authenticate' to sign in again.">>
MsgNoConfigToClear == <<"info", "No config file found to clear.">>

\* the config stored by an earlier authenticate
PriorConfig == [StoredConfig(TokenOpaque) EXCEPT !.project = "p1", !.refreshToken = "refresh-2"]

StoreFiles ==
  {NoFile, EmptyFile, GarbageFile, FileOf(PriorConfig),
   FileOf([NoConfig EXCEPT !.exists = TRUE, !.project = "p1"])}

\* the cleared config keeping the refreshToken
ClearedConfig_KeepRefreshToken(stored) ==
  [exists |-> TRUE, project |-> stored.project,
   accessToken |-> Undef, refreshToken |-> stored.refreshToken]

\* clearedConfig = { project: config.project }
ClearedConfig(stored) ==
  [exists |-> TRUE, project |-> stored.project,
   accessToken |-> Undef, refreshToken |-> Undef]

\* codicent.clearTokens is invoked: up to the end of "await getWorkspaceConfig"
ClearTokensRead ==
  /\ call = NoCall
  /\ call' = IF ~hasFolder
             THEN [fn |-> "codicent.clearTokens", arg |-> NoConfig, done |-> TRUE,
                   out |-> Returned(<<<<"show", MsgNoFolderOpen>>>>)]
             ELSE [fn |-> "codicent.clearTokens", arg |-> getWorkspaceConfig(config),
                   done |-> FALSE, out |-> NotRun]
  /\ UNCHANGED <<flow, config, hasFolder>>

\* the rest of codicent.clearTokens: writeConfigFile(clearedConfig), or the
\* message that there is nothing to clear
ClearTokensWrite ==
  /\ call.fn = "codicent.clearTokens" /\ ~call.done
  /\ IF call.arg.exists
     THEN /\ config' = FileOf(ClearedConfig(call.arg))
          /\ call' = [call EXCEPT !.done = TRUE,
                         !.out = Returned(<<<<"show", MsgConfigured(call.arg.project)>>,
                                            <<"show", MsgCleared>>>>)]
     ELSE /\ config' = config
          /\ call' = [call EXCEPT !.done = TRUE,
                         !.out = Returned(<<<<"show", MsgNoConfigToClear>>>>)]
  /\ UNCHANGED <<flow, hasFolder>>

StoreStartReplies ==
  {[kind |-> "error", status |-> 0, body |-> NoBody],
   [kind |-> "http", status |-> 200, body |-> NoBody],
   [kind |-> "http", status |-> 200,
    body |-> StartBody("object", Undef, Undef, "UC", Undef,
                       "https://codicent.com/device", Undef, <<2>>, NoNum, <<1>>)],
   [kind |-> "http", status |-> 200,
    body |-> StartBody("object", "dc", Undef, "UC", Undef,
                       "https://codicent.com/device", Undef, <<2>>, NoNum, <<1>>)]}

\* the access tokens that the token endpoint returns
ServerTokens == {TokenJwt, TokenOpaque, "my-placeholder-token", "hdr.payloadBadExp.sig"}

StorePollReplies ==
  {[kind |-> "http", status |-> 400,
    body |-> PollBody("object", Undef, Undef, Undef, FALSE, {}, "authorization_pending", NoTitle)],
   [kind |-> "http", status |-> 400,
    body |-> PollBody("object", Undef, Undef, Undef, FALSE, {}, "invalid_grant", NoTitle)]}
  \cup {[kind |-> "http", status |-> 200,
         body |-> PollBody("object", token, Undef, "refresh-1", FALSE, {}, Undef, NoTitle)] :
          token \in ServerTokens}

InitStore ==
  /\ flow = [f \in {"f1"} |-> InitFlow]
  /\ config \in StoreFiles
  /\ hasFolder \in BOOLEAN
  /\ call = NoCall

NextStore ==
  \/ \E f \in DOMAIN flow : Authenticate(f)
  \/ \E f \in DOMAIN flow, action \in {"Open Folder", Undef} : FolderPromptAnswer(f, action)
  \/ \E f \in DOMAIN flow, reply \in StoreStartReplies : StartReply(f, reply)
  \/ \E f \in DOMAIN flow, userChoice \in {"Open Browser", "Cancel", Undef} : PromptAnswer(f, userChoice)
  \/ \E f \in DOMAIN flow : TimerFire(f)
  \/ \E f \in DOMAIN flow, reply \in StorePollReplies : PollReply(f, reply)
  \/ \E f \in DOMAIN flow : WriteConfigFile(f)
  \/ ClearTokensRead
  \/ ClearTokensWrite
  \/ Tick

SpecStore == InitStore /\ [][NextStore]_vars

(***************************************************************************)
(* The flow under fair timers: time passes and the event loop runs the     *)
(* callback of a due interval timer.  Nothing is assumed of the user or of *)
(* the server: prompts may stay unanswered and requests may never complete.*)
(* The start replies are those whose attempt budget the exploration covers *)
(* to its end (TimerFire is explored up to MaxFires callbacks).            *)
(***************************************************************************)
LiveStartReplies ==
  {reply \in StartReplies :
     LET deviceAuth == startDeviceAuth(reply)
     IN deviceAuth.isNull \/ MaxAttempts(deviceAuth) < MaxFires}

NextLive ==
  \/ \E f \in DOMAIN flow : Authenticate(f)
  \/ \E f \in DOMAIN flow, action \in {"Open Folder", Undef} : FolderPromptAnswer(f, action)
  \/ \E f \in DOMAIN flow, reply \in LiveStartReplies : StartReply(f, reply)
  \/ \E f \in DOMAIN flow, userChoice \in {"Open Browser", "Cancel", Undef} : PromptAnswer(f, userChoice)
  \/ \E f \in DOMAIN flow : TimerFire(f)
  \/ \E f \in DOMAIN flow, reply \in FlowPollReplies : PollReply(f, reply)
  \/ \E f \in DOMAIN flow : WriteConfigFile(f)
  \/ Tick

SpecLive ==
  /\ Init /\ [][NextLive]_vars
  /\ WF_vars(Tick)
  /\ WF_vars(TimerFire("f1"))

(***************************************************************************)
(* Properties.                                                             *)
(***************************************************************************)
\* the branches of pollForToken that the design classifies as Fatal
FatalBranches ==
  {"transportError", "parseError", "missingAccessToken", "parseError400",
   "validationError", "invalidGrant", "otherError", "otherStatus"}

\* a poll reply has just been handled in this step
Replied(f) == flow'[f].replies = flow[f].replies + 1

\* a poll request has just been sent in this step
PollSent(f) == flow'[f].pollsSent = flow[f].pollsSent + 1

HasShown(f, msg) == \E i \in DOMAIN flow[f].shown : flow[f].shown[i] = msg

PromptShown(f) ==
  \E i \in DOMAIN flow[f].shown : flow[f].shown[i][2] = "Codicent Authorization Required"

\* the DeviceAuthorization of the flow satisfies the data model:
\* expiresInSeconds > 0 and pollIntervalSeconds > 0
ValidAuth(f) ==
  flow[f].deviceAuth.expires_in > 0 /\ flow[f].deviceAuth.interval > 0

\* C1: whenever a poll attempt (of a DeviceAuthorization with positive expiry
\* and interval) yields a Fatal outcome, the polling loop stops: the timer is
\* cleared, run returns null, and no poll request is sent afterwards.
C1_FatalStopsLoop ==
  [][\A f \in DOMAIN flow :
       ValidAuth(f) =>
         /\ (Replied(f) /\ flow'[f].lastBranch \in FatalBranches)
              => (~flow'[f].timerActive /\ flow'[f].result.state = "null")
         /\ (flow[f].lastBranch \in FatalBranches) => ~PollSent(f)]_vars

\* C2: a 400 reply with validation errors on ClientId, DeviceCode or
\* GrantType is never retried: no poll request is sent after it.
C2_ValidationErrorNeverRetried ==
  [][\A f \in DOMAIN flow :
       (ValidAuth(f) /\ flow[f].lastBranch = "validationError") => ~PollSent(f)]_vars

\* C3: a DeviceAuthorization (expires_in > 0, interval > 0) is never polled
\* after expires_in seconds have elapsed since the start response was
\* received.
C3_NeverPolledAfterExpiry ==
  [][\A f \in DOMAIN flow :
       (PollSent(f) /\ ValidAuth(f)) => flow[f].age <= flow[f].deviceAuth.expires_in]_vars

\* C4: one run sends at most floor(expires_in / interval) poll requests, that
\* is 120 for 600/5, and none when floor(expires_in / interval) is 0 or
\* expires_in < interval for a positive interval.
C4_AtMostMaxAttemptsPolls ==
  \A f \in DOMAIN flow :
    LET e == flow[f].deviceAuth.expires_in
        i == flow[f].deviceAuth.interval
        n == flow[f].pollsSent
    IN /\ n = 0 \/ (i > 0 /\ n * i <= e) \/ (i < 0 /\ n * i >= e)
       /\ (i > 0 /\ e < i) => n = 0
       /\ (flow[f].pc = "polling" /\ e = 600 /\ i = 5) => flow[f].maxAttempts = 120

\* C4 witness: a flow that expired after exactly floor(expires_in / interval)
\* >= 2 polls, all of them answered Pending
C4_Witness ==
  \E f \in DOMAIN flow :
    /\ HasShown(f, MsgExpired)
    /\ flow[f].allPending /\ flow[f].replies = flow[f].pollsSent
    /\ flow[f].pollsSent >= 2
    /\ flow[f].deviceAuth.interval > 0
    /\ flow[f].pollsSent * flow[f].deviceAuth.interval <= flow[f].deviceAuth.expires_in

\* C5: when a poll attempt receives a 2xx reply with a present accessToken,
\* run returns a TokenResult with that accessToken and the refreshToken of the
\* reply (absent when missing or null), and no poll request is sent after the
\* Success.
C5_SuccessReturnsToken ==
  [][\A f \in DOMAIN flow :
       /\ (flow[f].inflight > 0 /\ ValidAuth(f)) =>
            \A reply \in FlowPollReplies :
              (PollReply(f, reply) /\ reply.kind = "http"
                 /\ reply.status >= 200 /\ reply.status < 300
                 /\ reply.body.kind = "object"
                 /\ reply.body.accessToken \notin {Undef, ""})
              => /\ flow'[f].result.state = "token"
                 /\ flow'[f].result.accessToken = reply.body.accessToken
                 /\ flow'[f].result.refreshToken \in {reply.body.refreshToken, Undef}
       /\ (flow[f].lastBranch = "success") => ~PollSent(f)]_vars

\* the replies that the design classifies as Pending
ClaimPending(reply) ==
  /\ reply.kind = "http" /\ reply.status = 400 /\ reply.body.kind = "object"
  /\ \/ reply.body.error \in {"authorization_pending", "slow_down"}
     \/ \E i \in DOMAIN reply.body.title : reply.body.title[i] \in {"Pending", "pending", "PENDING"}

\* C6: a Pending reply does not terminate the flow (timer, result and
\* notifications stay as they are), the next timer callback polls again while
\* attempts remain, and a flow that expires has returned null, has shown the
\* expiry error and, for positive expires_in and interval, has sent exactly
\* floor(expires_in / interval) polls.
C6_PendingContinuesUntilExpiry ==
  /\ [][\A f \in DOMAIN flow :
          /\ flow[f].inflight > 0 =>
               \A reply \in FlowPollReplies :
                 (PollReply(f, reply) /\ ClaimPending(reply))
                 => /\ flow'[f].timerActive = flow[f].timerActive
                    /\ flow'[f].result = flow[f].result
                    /\ flow'[f].shown = flow[f].shown
                    /\ flow'[f].pc = flow[f].pc
          /\ (TimerFire(f) /\ flow[f].attempts < flow[f].maxAttempts) => PollSent(f)]_vars
  /\ [](\A f \in DOMAIN flow :
          HasShown(f, MsgExpired) =>
            /\ flow[f].result.state = "null"
            /\ ~flow[f].timerActive
            /\ (flow[f].deviceAuth.expires_in > 0 /\ flow[f].deviceAuth.interval > 0)
                 => /\ flow[f].pollsSent * flow[f].deviceAuth.interval <= flow[f].deviceAuth.expires_in
                    /\ (flow[f].pollsSent + 1) * flow[f].deviceAuth.interval > flow[f].deviceAuth.expires_in)

\* C6 witness: every poll was answered Pending, at least two were sent, and
\* the flow has expired with null
C6_Witness ==
  \E f \in DOMAIN flow :
    /\ flow[f].allPending /\ flow[f].replies = flow[f].pollsSent
    /\ flow[f].lastBranch = "pending"
    /\ flow[f].pollsSent >= 2
    /\ HasShown(f, MsgExpired)
    /\ flow[f].result.state = "null"

\* C7: at every moment at most one poll request of a flow (with positive
\* expiry and interval) is in flight.
C7_AtMostOnePollInFlight ==
  \A f \in DOMAIN flow : ValidAuth(f) => flow[f].inflight <= 1

\* a required field of the DeviceAuthorization is unset
FieldUnset(auth) ==
  \/ auth.device_code \in {Undef, ""}
  \/ auth.user_code \in {Undef, ""}
  \/ auth.verification_uri \in {Undef, ""}

\* C8 (as stated): startDeviceAuth never returns a DeviceAuthorization object
\* with device code, user code or verification URI unset.
C8_StartNeverReturnsPartial ==
  \A f \in DOMAIN flow :
    ~flow[f].deviceAuth.isNull => ~FieldUnset(flow[f].deviceAuth)

\* C8 (amended): an object that startDeviceAuth returns with device code, user
\* code or verification URI unset is rejected by completeDeviceAuth before any
\* use: the invalid-response error is shown, run returns null, and no prompt is
\* shown, no URL opened and no poll request sent.
C8_PartialAuthIsRejected ==
  \A f \in DOMAIN flow :
    (~flow[f].deviceAuth.isNull /\ FieldUnset(flow[f].deviceAuth))
      => /\ flow[f].result.state = "null"
         /\ HasShown(f, MsgInvalidResponse)
         /\ ~PromptShown(f)
         /\ flow[f].opened = << >>
         /\ flow[f].pollsSent = 0 /\ ~flow[f].timerActive

\* C8 witness: start returned an object without some required field and the
\* run has ended with null
C8_Witness ==
  \E f \in DOMAIN flow :
    /\ ~flow[f].deviceAuth.isNull /\ FieldUnset(flow[f].deviceAuth)
    /\ flow[f].deviceAuth.user_code = "UC"
    /\ flow[f].result.state = "null"

\* the start replies that count as a failed start
ClaimStartFails(reply) ==
  \/ reply.kind = "error"
  \/ reply.status < 200 \/ reply.status > 299
  \/ reply.body.kind # "object"
  \/ (reply.body.device_code \in {Undef, ""} /\ reply.body.deviceCode \in {Undef, ""})
  \/ (reply.body.user_code \in {Undef, ""} /\ reply.body.userCode \in {Undef, ""})
  \/ (reply.body.verification_uri \in {Undef, ""} /\ reply.body.verificationUri \in {Undef, ""})

\* the flow has ended with null and has neither prompted, opened a URL nor polled
EndedWithoutPolling(fl) ==
  /\ fl.result.state = "null" /\ fl.pc = "done"
  /\ \A i \in DOMAIN fl.shown : fl.shown[i][2] # "Codicent Authorization Required"
  /\ fl.opened = << >>
  /\ fl.pollsSent = 0 /\ fl.inflight = 0 /\ ~fl.timerActive

\* C9: if start fails (transport error, non-2xx status, unparseable body or a
\* required field missing), run returns null without showing the prompt,
\* opening the browser or sending a poll request, and stays so.
C9_StartFailureEndsRun ==
  /\ [][\A f \in DOMAIN flow :
          flow[f].pc = "starting" =>
            \A reply \in StartReplies :
              (StartReply(f, reply) /\ ClaimStartFails(reply))
              => /\ EndedWithoutPolling(flow'[f])
                 /\ flow'[f].userChoice = "none"]_vars
  /\ [][\A f \in DOMAIN flow :
          (flow[f].userChoice = "none" /\ EndedWithoutPolling(flow[f]))
            => (flow'[f].userChoice = "none" /\ EndedWithoutPolling(flow'[f]))]_vars

\* C9 witness: a run whose start request was sent has ended with null before
\* the prompt
C9_Witness ==
  \E f \in DOMAIN flow :
    /\ flow[f].startsSent = 1
    /\ flow[f].userChoice = "none"
    /\ EndedWithoutPolling(flow[f])
    /\ HasShown(f, MsgStartFailed)

\* C10: the verification URI with the user code appended is opened, and
\* polling begins, only if the user chose "Open Browser"; on cancel or
\* dismissal run returns null, nothing is opened and no poll request is sent.
C10_OnlyAcceptOpensAndPolls ==
  \A f \in DOMAIN flow :
    /\ (flow[f].opened # << >> /\ flow[f].startsSent > 0)
         => /\ flow[f].userChoice = "Open Browser"
            /\ flow[f].opened = << <<flow[f].deviceAuth.verification_uri, "?user_code=",
                                     flow[f].deviceAuth.user_code>> >>
    /\ (flow[f].pollsSent > 0 \/ flow[f].timerActive \/ flow[f].pc = "polling")
         => flow[f].userChoice = "Open Browser"
    /\ (flow[f].userChoice \in {"Cancel", Undef})
         => /\ flow[f].result.state = "null"
            /\ flow[f].opened = << >>
            /\ flow[f].pollsSent = 0 /\ ~flow[f].timerActive

\* C10 witness: the user dismissed or cancelled the prompt and the run has
\* returned null
C10_Witness ==
  \E f \in DOMAIN flow :
    /\ PromptShown(f)
    /\ flow[f].userChoice \in {"Cancel", Undef}
    /\ flow[f].result.state = "null"

\* the number of error notifications shown to the user by flow f
ErrorsShown(f) ==
  Cardinality({i \in DOMAIN flow[f].shown : flow[f].shown[i][1] = "error"})

\* C11: when the user cancels at the approval prompt, the command ends with
\* no token and no error message is shown to the user.
C11_CancelShowsNoError ==
  \A f \in DOMAIN flow :
    (flow[f].pc = "done" /\ flow[f].userChoice = "Cancel")
      => /\ flow[f].result.state = "null"
         /\ ErrorsShown(f) = 0

\* the run of the command has ended in one of the failures of the claim:
\* start failed, malformed start response, or expiry
EndedInFailure(f) ==
  /\ flow[f].pc = "done"
  /\ flow[f].result.state = "null"
  /\ \/ flow[f].startsSent > 0 /\ flow[f].deviceAuth.isNull
     \/ ~flow[f].deviceAuth.isNull /\ MissingRequiredFields(flow[f].deviceAuth)
     \/ /\ flow[f].userChoice = "Open Browser"
        /\ AttemptsExhausted(flow[f].attempts, flow[f].maxAttempts)

\* C12: a run of the command that ends in failure (start failed, malformed
\* start response, expiry) has shown exactly one error notification.
C12_FailureReportedOnce ==
  \A f \in DOMAIN flow : EndedInFailure(f) => ErrorsShown(f) = 1

\* the reply carries the error code authorization_pending or slow_down
ClaimPendingCode(reply) ==
  /\ reply.kind = "http" /\ reply.status = 400 /\ reply.body.kind = "object"
  /\ reply.body.error \in {"authorization_pending", "slow_down"}

\* C13: handling a poll reply with error code authorization_pending or
\* slow_down shows no notification of any level and opens nothing: the
\* notifications and the opened URLs of the flow are the same after the step.
C13_PendingNeverShown ==
  [][\A f \in DOMAIN flow :
       flow[f].inflight > 0 =>
         \A reply \in FlowPollReplies :
           (PollReply(f, reply) /\ ClaimPendingCode(reply))
             => /\ flow'[f].shown = flow[f].shown
                /\ flow'[f].opened = flow[f].opened]_vars

\* C13 witness: two replies have been handled, all of them Pending, and the
\* flow has shown nothing but the start message and the prompt
C13_Witness ==
  \E f \in DOMAIN flow :
    /\ flow[f].replies >= 2 /\ flow[f].allPending
    /\ Len(flow[f].shown) = 2

\* C14: a poll request is sent only when at least interval seconds have
\* passed since the prompt was accepted or since the previous timer callback
\* (which sent the previous poll), and while the timer is armed the
\* DeviceAuthorization, hence the interval, does not change, whatever the
\* replies (slow_down included).
C14_PollCadence ==
  [][\A f \in DOMAIN flow :
       /\ PollSent(f) => flow[f].elapsed >= flow[f].deviceAuth.interval
       /\ flow[f].timerActive => flow'[f].deviceAuth = flow[f].deviceAuth]_vars

\* C14 witness: with an interval of at least 2 seconds, two polls have been
\* sent and a Pending reply (authorization_pending or slow_down) was the last
C14_Witness ==
  \E f \in DOMAIN flow :
    /\ flow[f].deviceAuth.interval >= 2
    /\ flow[f].pollsSent >= 2
    /\ flow[f].replies >= 1 /\ flow[f].lastBranch = "pending"

\* C15: under fair timers, a flow whose prompt was accepted (the timer is
\* armed and the promise of completeDeviceAuth pending) eventually has its
\* result, a token or null, whatever the replies and even if no poll request
\* ever completes.
C15_RunTerminates ==
  (flow["f1"].pc = "polling") ~> (flow["f1"].result.state # "unset")

\* C15 witness: the run has returned after the prompt was accepted, with a
\* poll request still in flight and no reply ever handled
C15_Witness ==
  /\ flow["f1"].userChoice = "Open Browser"
  /\ flow["f1"].result.state # "unset"
  /\ flow["f1"].pollsSent > 0 /\ flow["f1"].replies = 0
  /\ flow["f1"].inflight = flow["f1"].pollsSent

\* a finished call of the function fn
CallDone(fn) == call.fn = fn /\ call.done

\* a 2xx reply whose body is a JSON value other than null
Is2xxObject(reply) ==
  /\ reply.kind = "http" /\ reply.status >= 200 /\ reply.status < 300
  /\ reply.body.kind = "object"

\* the access token arrives in snake_case only
SnakeOnlyToken(reply) ==
  /\ Is2xxObject(reply)
  /\ Truthy(reply.body.access_token) /\ reply.body.accessToken = Undef

\* C16: a 2xx poll response whose access token arrives as access_token is
\* Success with that access token, and its refresh token is the one given
\* under either casing.
C16_EitherCasingAccepted ==
  (CallDone("pollForToken") /\ SnakeOnlyToken(call.arg))
    => /\ ~call.out.threw /\ ~call.out.value.isNull
       /\ call.out.value.accessToken = call.arg.body.access_token
       /\ call.out.value.refreshToken
            = OrStr(call.arg.body.refreshToken, call.arg.body.refresh_token)

\* C16 (amended): the parser reads the camelCase fields only.  A 2xx poll
\* response is Success exactly when its accessToken is present and not empty,
\* with that accessToken and the refreshToken as given; access_token and
\* refresh_token are ignored, so a token that arrives as access_token only
\* yields null.
C16_CamelCaseOnly ==
  (CallDone("pollForToken") /\ Is2xxObject(call.arg))
    => /\ ~call.out.threw
       /\ call.out.value.isNull <=> ~Truthy(call.arg.body.accessToken)
       /\ ~call.out.value.isNull
            => /\ call.out.value.accessToken = call.arg.body.accessToken
               /\ call.out.value.refreshToken = call.arg.body.refreshToken

\* C16 witness: a 2xx response with access_token and refresh_token only has
\* been parsed, and the result is null
C16_Witness ==
  /\ CallDone("pollForToken") /\ SnakeOnlyToken(call.arg)
  /\ Truthy(call.arg.body.refresh_token)
  /\ call.out.value.isNull

\* the start body with the values of its camelCase properties moved to the
\* snake_case ones
ToSnake(b) ==
  [b EXCEPT !.device_code = b.deviceCode, !.deviceCode = Undef,
            !.user_code = b.userCode, !.userCode = Undef,
            !.verification_uri = b.verificationUri, !.verificationUri = Undef,
            !.expires_in = b.expiresIn, !.expiresIn = NoNum]

\* the body gives the four fields in camelCase only, none of them empty
CamelOnly(b) ==
  /\ b.device_code = Undef /\ b.user_code = Undef
  /\ b.verification_uri = Undef /\ b.expires_in = NoNum
  /\ b.deviceCode # "" /\ b.userCode # "" /\ b.verificationUri # ""

\* got is the snake_case value when there is one (not empty), and the
\* camelCase value when there is one and the snake_case property is absent
NormalizedStr(snake, camel, got) ==
  /\ Truthy(snake) => got = snake
  /\ (snake = Undef /\ Truthy(camel)) => got = camel

NormalizedNum(snake, camel, got) ==
  /\ TruthyNum(snake) => got = snake[1]
  /\ (snake = NoNum /\ TruthyNum(camel)) => got = camel[1]

C18_PolledAuthIsPositive ==
  \A f \in DOMAIN flow : flow[f].pollsSent > 0 => ValidAuth(f)

\* C19: startDeviceAuth and pollForToken settle by resolving with a value,
\* the one the flow continues with, for a transport error, any status code
\* and any response body: no exception leaves the response handler.
C19_CallsAlwaysSettle ==
  /\ CallDone("startDeviceAuth")
       => /\ ~call.out.threw
          /\ call.out.value = startDeviceAuth(call.arg)
  /\ CallDone("pollForToken")
       => /\ ~call.out.threw
          /\ call.out.value = pollForToken(call.arg)

\* C19 witness: a 400 poll response whose handling throws inside the try
\* block (not JSON, JSON null, or a title that is not a string) has been
\* handled, and the promise is resolved with null
C19_Witness ==
  /\ CallDone("pollForToken")
  /\ call.arg.kind = "http" /\ call.arg.status = 400
  /\ PollTryBody(call.arg).threw
  /\ call.out = Returned(NullToken)

\* the middle segment has characters of the base64 alphabet only
ClaimValidBase64(seg) == seg \notin {"payload!Demo", "!!!!"}

\* the token does not split into exactly three segments
WrongSegmentCount(token) == Len(SplitDot(token)) # 3

\* C20: decodeJWT never throws, and returns null for a token that does not
\* split into exactly three segments, or whose middle segment is not valid
\* base64 or does not decode to valid JSON.
C20_InvalidTokenYieldsNull ==
  (CallDone("decodeJWT") /\ ~SplitThrows(call.arg))
    => /\ ~call.out.threw
       /\ (\/ WrongSegmentCount(call.arg)
           \/ ~ClaimValidBase64(SplitDot(call.arg)[2])
           \/ ParseSegment(SplitDot(call.arg)[2]).kind = "invalid")
            => call.out.value = NullPayload

\* C20 (amended): decodeJWT never throws, and returns null for a token that
\* is not a string, that does not split into exactly three segments, or
\* whose middle segment, decoded by the lenient base64 decoder (characters
\* outside the alphabet are skipped), is not valid JSON; otherwise, also for
\* a middle segment that is not valid base64, it returns the parsed value.
C20_UndecodableTokenYieldsNull ==
  CallDone("decodeJWT")
    => /\ ~call.out.threw
       /\ IF SplitThrows(call.arg) THEN call.out.value = NullPayload
          ELSE IF WrongSegmentCount(call.arg) THEN call.out.value = NullPayload
          ELSE IF JsonParse(Base64ToUtf8(Pad(SplitDot(call.arg)[2]))).kind = "invalid"
               THEN call.out.value = NullPayload
          ELSE call.out.value = JsonParse(Base64ToUtf8(Pad(SplitDot(call.arg)[2])))

\* C20 witness: a token of three segments whose middle segment is not valid
\* base64 and decodes to no JSON has been decoded to null
C20_Witness ==
  /\ CallDone("decodeJWT") /\ ~SplitThrows(call.arg)
  /\ ~WrongSegmentCount(call.arg)
  /\ ~ClaimValidBase64(SplitDot(call.arg)[2])
  /\ DecodeTryBody(call.arg).threw
  /\ call.out = Returned(NullPayload)

\* the middle segment of a token of three segments parses to a JSON value
\* that is not an object (a number, a string, a boolean)
NonObjectPayload(token) ==
  /\ ~SplitThrows(token) /\ ~WrongSegmentCount(token)
  /\ ParseSegment(SplitDot(token)[2]).kind \in {"scalar", "falsy"}

\* C21: decodeJWT returns null or an object of claims: for a middle segment
\* that decodes to valid JSON that is not an object, the result is null and
\* not that value.
C21_NonObjectPayloadIsAbsent ==
  (CallDone("decodeJWT") /\ NonObjectPayload(call.arg))
    => call.out.value = NullPayload

\* the claims of the payload that decodeJWT gives for a token
ClaimsOf(token) == decodeJWT(token)

\* the token decodes to an object of claims
Decodes(token) == ClaimsOf(token).kind = "object"

\* the first claim that is present, in the order project, proj, aud,
\* client_id, or Undef when none is
FirstPresent(p) ==
  IF p.project # Undef THEN p.project
  ELSE IF p.proj # Undef THEN p.proj
  ELSE IF p.aud # Undef THEN p.aud
  ELSE p.client_id

\* the first claim with a non-empty value, in the same order
FirstNonEmpty(p) ==
  IF p.project \notin {Undef, ""} THEN p.project
  ELSE IF p.proj \notin {Undef, ""} THEN p.proj
  ELSE IF p.aud \notin {Undef, ""} THEN p.aud
  ELSE IF p.client_id \notin {Undef, ""} THEN p.client_id
  ELSE Undef

\* C22: getProjectFromToken returns the value of the first claim present in
\* the payload, in the order project, proj, aud, client_id, and nothing when
\* none is present or the token does not decode; a present claim is never
\* skipped in favour of a lower one.
C22_FirstPresentClaim ==
  CallDone("getProjectFromToken")
    => call.out = Returned(IF Decodes(call.arg)
                           THEN FirstPresent(ClaimsOf(call.arg)) ELSE Undef)

\* C22 (amended): getProjectFromToken returns the value of the first claim
\* whose value is non-empty, in the order project, proj, aud, client_id, and
\* nothing when no claim has a non-empty value or the token does not decode
\* to an object; a claim that is present with an empty value is skipped.
C22_FirstNonEmptyClaim ==
  CallDone("getProjectFromToken")
    => call.out = Returned(IF Decodes(call.arg)
                           THEN FirstNonEmpty(ClaimsOf(call.arg)) ELSE Undef)

\* C22 witness: a payload without project and with proj, aud and client_id
\* has given proj
C22_Witness ==
  /\ CallDone("getProjectFromToken") /\ Decodes(call.arg)
  /\ ClaimsOf(call.arg).project = Undef
  /\ ClaimsOf(call.arg).aud # Undef
  /\ call.out = Returned(ClaimsOf(call.arg).proj)
  /\ call.out.value # Undef

\* C23: the config read back by getWorkspaceConfig right after
\* writeConfigFile has written the result of a successful authorization has
\* the accessToken of that result.
C23_TokenRoundTrip ==
  [][\A f \in DOMAIN flow :
       (WriteConfigFile(f) /\ flow[f].result.state = "token")
         => getWorkspaceConfig(config').accessToken = flow[f].result.accessToken]_vars

\* C23 witness: the command has ended after a successful authorization and
\* the file read back gives the accessToken of the result
C23_Witness ==
  \E f \in DOMAIN flow :
    /\ flow[f].pc = "done" /\ flow[f].result.state = "token"
    /\ config.exists
    /\ getWorkspaceConfig(config).accessToken = flow[f].result.accessToken

\* a step of flow f: one of its handlers runs
StepOf(f) ==
  \/ Authenticate(f)
  \/ \E reply \in TwoStartReplies(f) : StartReply(f, reply)
  \/ \E userChoice \in {"Open Browser", "Cancel"} : PromptAnswer(f, userChoice)
  \/ TimerFire(f)
  \/ \E reply \in TwoPollReplies(flow[f].polledWith) : PollReply(f, reply)
  \/ WriteConfigFile(f)

\* the config that the command writes for the result of flow f
ConfigOfResult(f) ==
  [exists |-> TRUE,
   project |-> OrStr(getProjectFromToken(flow[f].result.accessToken), "unknown-project"),
   accessToken |-> flow[f].result.accessToken,
   refreshToken |-> flow[f].result.refreshToken]

\* each flow holds and polls with the device code issued to it, its timer
\* runs as long as it polls, and the stored config is the whole config of
\* one flow that succeeded
FlowsKeepTheirOwn ==
  /\ \A f \in DOMAIN flow :
       /\ flow[f].deviceAuth.device_code \in {Undef, DeviceCodeOf(f)}
       /\ flow[f].polledWith \in {Undef, DeviceCodeOf(f)}
       /\ flow[f].pc = "polling" => flow[f].timerActive
       /\ flow[f].result.state = "token"
            => flow[f].result.accessToken = GrantFor(DeviceCodeOf(f)).accessToken
  /\ config.exists
       => \E f \in DOMAIN flow :
            /\ flow[f].pc = "done" /\ flow[f].result.state = "token"
            /\ getWorkspaceConfig(config) = ConfigOfResult(f)

\* C24: two interleaved codicent.authenticate commands do not disturb each
\* other: a step of one flow (its expiry, cancel or success included) leaves
\* the other flow as it was, each flow keeps and polls with its own device
\* code, and the config stored is that of one flow that succeeded, never a
\* mix of the fields of both.
C24_FlowsAreIndependent ==
  /\ []FlowsKeepTheirOwn
  /\ [][\A f \in DOMAIN flow :
          StepOf(f) => \A g \in DOMAIN flow \ {f} : flow'[g] = flow[g]]_vars

\* C24 witness: both commands polled at the same time, the first expired
\* and the second succeeded afterwards and stored its config
C24_Witness ==
  /\ DOMAIN flow = Flows2
  /\ flow["f1"].pc = "done" /\ flow["f1"].result.state = "null"
  /\ HasShown("f1", MsgExpired)
  /\ flow["f2"].pc = "done" /\ flow["f2"].result.state = "token"
  /\ flow["f2"].pollsSent > 0
  /\ getWorkspaceConfig(config).accessToken = "hdr.payloadAud.sig"

\* a send command has run
SendDone ==
  /\ call.done
  /\ call.fn \in {"codicent.send", "codicent.sendToMcp", "codicent.send (src/extension.ts)"}

\* the effects of the run of the command
Effects == call.out.value

\* the effects of one kind, in order
EffectsOf(kind) == SelectSeq(Effects, LAMBDA e : e[1] = kind)

\* the selection is empty or consists of white space
WhitespaceOnly(text) == \A i \in DOMAIN text : text[i] \in {" ", "\n"}

\* C25: a send command invoked with no active editor, or with a selection
\* that is empty or white space only, shows one error message and returns
\* without reading the token, sending a request or opening the browser.
C25_SendGuardsInput ==
  (SendDone /\ (~call.arg.editor \/ WhitespaceOnly(call.arg.text)))
    => /\ ~call.out.threw
       /\ Len(Effects) = 1
       /\ Effects[1][1] = "show" /\ Effects[1][2][1] = "error"
       /\ EffectsOf("getCodicentToken") = << >>
       /\ EffectsOf("post") = << >>
       /\ EffectsOf("open") = << >>

\* C25 witness: codicent.send has run on a selection of white space, with
\* an editor and a stored token, and has shown only the error message
C25_Witness ==
  /\ SendDone /\ call.fn = "codicent.send"
  /\ call.arg.editor /\ call.arg.text = <<" ", "\n">>
  /\ call.arg.folder /\ call.arg.file = FileOf(StoredConfig(TokenJwt))
  /\ Effects = <<<<"show", MsgNoSelection>>>>

\* codicent.send has run with an editor and a selection that is not blank
SendRan ==
  /\ call.done /\ call.fn = "codicent.send"
  /\ call.arg.editor /\ ~WhitespaceOnly(call.arg.text)

\* the request was sent and answered with a 2xx response that carries a result
PostSucceeded ==
  /\ EffectsOf("post") # << >>
  /\ call.arg.reply.kind = "http"
  /\ call.arg.reply.status \in 200..299
  /\ call.arg.reply.body \in {"result", "sse"}

\* the text that the command built: the mention, a line feed, the selection
SentText == getProjectMention(call.arg.folder, call.arg.file).value \o <<"\n">> \o call.arg.text

\* C26: codicent.send, run on a selection that is not blank, opens the
\* compose URL if and only if the direct post did not succeed, after the
\* post was tried, and the URL carries the text that the post was tried with.
C26_FallbackIffPostFailed ==
  SendRan
    => /\ (EffectsOf("open") # << >>) <=> ~PostSucceeded
       /\ EffectsOf("open") # << >>
            => /\ Len(EffectsOf("open")) = 1
               /\ Effects[Len(Effects)][1] = "open"
               /\ TextParam(EffectsOf("open")[1][2]) = SentText
               /\ EffectsOf("post") # << >> => EffectsOf("post")[1][2] = SentText

\* the part of a sent text that precedes the selection
BeforeSelection(content) == SubSeq(content, 1, Len(content) - Len(call.arg.text))

\* the positions of the mention marker in a text
Markers(text) == {i \in DOMAIN text : text[i] = "@"}

\* C27: the text posted by codicent.send and codicent.sendToMcp starts with
\* exactly one "@" followed by the project name when the token yields one,
\* and has no "@" before the selected text when it yields none.
C27_MentionForm ==
  (call.done /\ call.fn \in {"codicent.send", "codicent.sendToMcp"}
     /\ EffectsOf("post") # << >>)
    => LET content == EffectsOf("post")[1][2]
           projectName == getProjectFromToken(EffectsOf("post")[1][3])
       IN IF Truthy(projectName)
          THEN /\ content[1] = "@" /\ content[2] = projectName
               /\ Markers(BeforeSelection(content)) = {1}
          ELSE Markers(BeforeSelection(content)) = {}

\* the text ends with the selection
EndsWithSelection(text) ==
  /\ Len(text) >= Len(call.arg.text)
  /\ SubSeq(text, Len(text) - Len(call.arg.text) + 1, Len(text)) = call.arg.text

\* C28: the compose URL opened by codicent.send carries the whole selection
\* in its text parameter: the characters reserved in a URL, "#" among them,
\* are escaped, so the decoded parameter gives the selection back unchanged.
C28_UrlCarriesSelection ==
  (call.done
     /\ call.fn \in {"codicent.send", "codicent.send (src/extension.ts)"}
     /\ EffectsOf("open") # << >>)
    => EndsWithSelection(TextParam(EffectsOf("open")[1][2]))

\* the project identifier of an access token: the first non-empty claim of
\* its payload, "unknown-project" when there is none
ProjectOrDefault(token) ==
  IF Decodes(token) /\ FirstNonEmpty(ClaimsOf(token)) # Undef
  THEN FirstNonEmpty(ClaimsOf(token))
  ELSE "unknown-project"

\* C29: after a successful device authorization the command stores the
\* result: the config read back after the write has the accessToken and the
\* refreshToken of the result and the project extracted from the access
\* token, or "unknown-project" when none can be extracted.
C29_ResultIsPersisted ==
  [][\A f \in DOMAIN flow :
       (WriteConfigFile(f) /\ flow[f].result.state = "token")
         => LET stored == getWorkspaceConfig(config')
            IN /\ stored.exists
               /\ stored.accessToken = flow[f].result.accessToken
               /\ stored.refreshToken = flow[f].result.refreshToken
               /\ stored.project = ProjectOrDefault(flow[f].result.accessToken)]_vars

\* C29 witness: the command has stored a token from which no project can be
\* extracted, under the project "unknown-project"
C29_Witness ==
  \E f \in DOMAIN flow :
    /\ flow[f].pc = "done" /\ flow[f].result.state = "token"
    /\ flow[f].result.accessToken = TokenOpaque
    /\ getWorkspaceConfig(config).accessToken = TokenOpaque
    /\ getWorkspaceConfig(config).project = "unknown-project"

\* how many times a message was shown by a flow
TimesShown(f, msg) == Cardinality({i \in DOMAIN flow[f].shown : flow[f].shown[i] = msg})

\* C30: under every interleaving of timer callbacks and poll replies, a flow
\* (with positive expiry and interval) shows at most one of "Device
\* authorization expired" and "Successfully authorized", at most once, and
\* shows the success message only if completeDeviceAuth returns the token.
C30_OneTerminalNotification ==
  \A f \in DOMAIN flow :
    ValidAuth(f)
      => /\ TimesShown(f, MsgExpired) + TimesShown(f, MsgAuthorized) <= 1
         /\ HasShown(f, MsgAuthorized) => flow[f].result.state = "token"

\* C31: once completeDeviceAuth has delivered its result (a token or null),
\* the interval timer of the flow is cleared and no new poll request is
\* started: the number of poll requests sent does not grow.
C31_NoPollAfterResult ==
  [][\A f \in DOMAIN flow :
       flow[f].result.state # "unset"
         => /\ ~flow[f].timerActive
            /\ flow'[f].pollsSent = flow[f].pollsSent]_vars

\* C31 witness: a flow has polled, got its token and ended, and time has
\* passed since
C31_Witness ==
  \E f \in DOMAIN flow :
    /\ flow[f].pc = "done" /\ flow[f].result.state = "token"
    /\ flow[f].pollsSent >= 1 /\ flow[f].inflight = 0
    /\ ~flow[f].timerActive

\* C32: a codicent.authenticate that fails, is cancelled or finds no
\* workspace folder does not write the config file: the file changes only
\* when a command with a token result writes it (or codicent.clearTokens
\* does), so a config stored before keeps its project and tokens.
C32_FailedAuthKeepsConfig ==
  [][config' # config
       => \/ ClearTokensWrite
          \/ \E f \in DOMAIN flow :
               WriteConfigFile(f) /\ flow[f].result.state = "token"]_vars

\* C32 witness: the command has ended with null after polling, in a
\* workspace with a stored config, and the config is the one stored before
C32_Witness ==
  \E f \in DOMAIN flow :
    /\ flow[f].pc = "done" /\ flow[f].result.state = "null"
    /\ flow[f].pollsSent >= 1
    /\ call = NoCall
    /\ getWorkspaceConfig(config) = PriorConfig

\* C33: codicent.clearTokens, when it has read a config, stores a config
\* with the same project and neither accessToken nor refreshToken, and
\* getCodicentToken then returns null; when it has read no config (or no
\* folder is open) it writes nothing.
C33_ClearTokensKeepsProject ==
  /\ [][ClearTokensWrite
          => IF call.arg.exists
             THEN LET stored == getWorkspaceConfig(config')
                  IN /\ stored.exists
                     /\ stored.project = call.arg.project
                     /\ stored.accessToken = Undef
                     /\ stored.refreshToken = Undef
                     /\ getCodicentToken(hasFolder, config') = Returned(Undef)
             ELSE config' = config]_vars
  /\ [][(/\ getCodicentToken(hasFolder, config) = Returned(Undef)
          /\ getCodicentToken(hasFolder', config') # Returned(Undef))
          => \E f \in DOMAIN flow :
               WriteConfigFile(f) /\ flow[f].result.state = "token"]_vars

\* C33 witness: the command has cleared a config that held a project, an
\* accessToken and a refreshToken
C33_Witness ==
  /\ call.fn = "codicent.clearTokens" /\ call.done
  /\ call.arg = PriorConfig
  /\ getWorkspaceConfig(config) = ClearedConfig(PriorConfig)
  /\ flow["f1"].pc = "idle"

\* C34: a token obtained by a successful codicent.authenticate is usable
\* afterwards: once the command has written the config, getCodicentToken
\* returns exactly the access token the server returned, and it keeps doing
\* so until codicent.clearTokens writes.
C34_TokenUsableAfterAuthenticate ==
  /\ [][\A f \in DOMAIN flow :
          WriteConfigFile(f)
            => getCodicentToken(hasFolder', config')
                 = Returned(flow[f].result.accessToken)]_vars
  /\ [][\A f \in DOMAIN flow :
          (/\ flow[f].pc = "done" /\ flow[f].result.state = "token"
           /\ getCodicentToken(hasFolder, config) = Returned(flow[f].result.accessToken)
           /\ getCodicentToken(hasFolder', config') # getCodicentToken(hasFolder, config))
            => ClearTokensWrite]_vars

\* the strings of the model that contain the text "placeholder"
ContainsPlaceholder(v) == v \in {"placeholder", "my-placeholder-token"}

\* the accessToken stored in the config file of the call
StoredAccessToken == getWorkspaceConfig(call.arg.file).accessToken

\* a folder is open and the stored accessToken is present, not empty and no
\* placeholder
RealTokenStored ==
  /\ call.arg.folder
  /\ StoredAccessToken \notin {Undef, ""}
  /\ StoredAccessToken # "your_actual_api_key_here"
  /\ ~ContainsPlaceholder(StoredAccessToken)

\* a call of a function that presents the token has run
PresenterDone ==
  /\ call.done
  /\ call.fn \in {"codicent.send", "codicent.sendToMcp", "codicent.debugMcp",
                  "resolveMcpServerDefinition"}

\* the Authorization headers of the definition the provider returned
ReturnedAuthorization ==
  {h \in EffectsOf("return")[1][2].headers.set : h[1] = "Authorization"}

\* C35: only a real stored token is presented as a bearer credential: every
\* post request carries Authorization "Bearer " plus the stored accessToken,
\* a definition the provider changed carries exactly that header, and with
\* the token absent, empty or a placeholder, or with no folder open, the
\* definition is returned unchanged and no post request is sent.
C35_OnlyStoredTokenIsPresented ==
  PresenterDone
    => /\ \A i \in DOMAIN EffectsOf("post") :
            /\ RealTokenStored
            /\ EffectsOf("post")[i][3] = StoredAccessToken
            /\ EffectsOf("post")[i][4] = <<"Bearer ", StoredAccessToken>>
       /\ (call.fn = "resolveMcpServerDefinition" /\ ~call.out.threw)
            => /\ Len(EffectsOf("return")) = 1
               /\ EffectsOf("return")[1][2] # call.arg.server
                    => /\ RealTokenStored
                       /\ ReturnedAuthorization
                            = {<<"Authorization", <<"Bearer ", StoredAccessToken>>>>}
               /\ ~RealTokenStored => EffectsOf("return")[1][2] = call.arg.server
               /\ (RealTokenStored /\ call.arg.server.http)
                    => ReturnedAuthorization
                         = {<<"Authorization", <<"Bearer ", StoredAccessToken>>>>}
       /\ ~RealTokenStored => EffectsOf("post") = << >>

\* C35 witness: the provider has replaced the Authorization header of a
\* definition by the stored token
C35_Witness ==
  /\ call.done /\ call.fn = "resolveMcpServerDefinition"
  /\ call.arg.server.headers.set = {<<"Authorization", <<"Bearer ", "stale">>>>}
  /\ ~call.out.threw
  /\ ReturnedAuthorization = {<<"Authorization", <<"Bearer ", TokenJwt>>>>}

\* a call of a function other than codicent.authenticate has run: a send
\* command, codicent.debugMcp, workspace initialization or MCP server
\* resolution
OtherCommandDone ==
  /\ call.done
  /\ call.fn \in {"codicent.send", "codicent.send (src/extension.ts)",
                  "codicent.sendToMcp", "codicent.debugMcp",
                  "initializeWorkspace", "resolveMcpServerDefinition"}

\* what a run may do: notifications, reading the stored token, requests to
\* mcp.codicent.com, the browser, the response panel and the value returned
OtherCommandEffects ==
  {"show", "getCodicentToken", "post", "get", "open", "panel", "return"}

====
